---------------------------- MODULE Spec2Model ----------------------------
(***************************************************************************)
(* A model of the image viewer's background loader: the Handle/Actor      *)
(* channel protocol (src/app/state/actor.rs) and the navigation algorithm *)
(* find_next_impl with its natural ordering (src/app/next_path.rs).       *)
(*                                                                        *)
(* Two specifications share the variables:                                *)
(*   Spec      the Handle (UI thread) and the Actor (worker thread)       *)
(*   SpecFind  find_next applied to bounded names and candidate sequences *)
(***************************************************************************)
EXTENDS Integers, Sequences, FiniteSets, TLC

VARIABLES
    \* ---- Handle (UI thread side), actor.rs:129-133
    waiting,        \* Handle.waiting
    cmdChan,        \* the command sync_channel(1): queued commands
    respChan,       \* the response sync_channel(1): queued responses
    uiBlocked,      \* Option: the command a blocking send is stuck on
    uiRet,          \* what the last Handle call returned
    \* ---- Actor (worker thread), actor.rs:220-241
    actorPc,        \* position in Actor::run
    actorCmd,       \* Option: the command received and being executed
    actorResp,      \* Option: the response computed and not yet sent
    nav,            \* State.navigation_mode
    cache,          \* State.cache: [lru, images, weight, capacity]
    fs,             \* the files that exist on disk
    \* ---- history of the run
    navInit,        \* the navigation mode the worker was spawned with
    nSent,          \* sends that returned Sent
    nRecv,          \* commands the worker has received
    nExecuted,      \* commands whose run_command has returned
    respLog,        \* tag of every response the worker has sent, in order
    polled,         \* tag of every response poll_response has returned, in order
    \* ---- find_next applied as a function (SpecFind)
    fnDir,          \* the candidate sequence
    fnCurrent,      \* the current name
    fnMode,         \* the Mode of the calls: Simple, or Random with a seed
    fnTrail,        \* the calls made so far: direction, current, result
    \* ---- HumanCompare applied as a function (SpecCompare)
    cmpLeft,        \* the left name
    cmpRight,       \* the right name
    cmpOut,         \* Option of the results of cmp both ways and of eq
    \* ---- Image::size_in_memory applied as a function (SpecSize)
    szFrames,       \* the frames of the image, each [width, height]
    szBuild,        \* the build profile of the program
    szOut,          \* Option of the result: [panic, value]
    \* ---- the settings (Config), config.rs:14-26
    cfgCacheSize,   \* Config.cache_size
    \* ---- the UI's State (SpecUi), state/mod.rs:52-58
    uiCache,        \* State.cache: [lru, images, weight, capacity]
    uiCurrent,      \* State.current: Option of [path, inner, image]
    uiErrors,       \* State.errors: the records [id, error], oldest first
    errorsIdCounter, \* ERRORS_ID_COUNTER
    uiCalls,        \* the calls State made on its actor, in order
    uiHandled,      \* responses handle_actor_responses has taken
    uiLast,         \* the method of State that ran last, with its input
    \* ---- NavigationMode::next_path applied to a list (SpecList)
    lsNav,          \* the navigation mode, Specified
    lsSeed,         \* State.random_seed
    lsTrail         \* the calls made so far: args, mode before, result

actorVars == <<waiting, cmdChan, respChan, uiBlocked, uiRet, actorPc, actorCmd,
               actorResp, nav, cache, fs, navInit, nSent, nRecv,
               nExecuted, respLog, polled>>
findVars == <<fnDir, fnCurrent, fnMode, fnTrail>>
cmpVars == <<cmpLeft, cmpRight, cmpOut>>
sizeVars == <<szFrames, szBuild, szOut>>
configVars == <<cfgCacheSize>>
uiVars == <<uiCache, uiCurrent, uiErrors, errorsIdCounter, uiCalls, uiHandled,
           uiLast>>
listVars == <<lsNav, lsSeed, lsTrail>>
pureVars == <<findVars, cmpVars, sizeVars, configVars, uiVars, listVars>>
vars == <<actorVars, pureVars>>

-----------------------------------------------------------------------------
(* Option<T> as a sequence of at most one element *)
None == <<>>
Some(x) == <<x>>
IsSome(o) == o # <<>>
Unwrap(o) == o[1]

Range(s) == {s[i] : i \in 1..Len(s)}

-----------------------------------------------------------------------------
(* Names are sequences of characters.  natord::compare reads them char by *)
(* char: it skips whitespace, compares digit runs as numbers and compares *)
(* other characters by code point.                                        *)

CharCode(c) ==
    CASE c = " " -> 32
      [] c = "0" -> 48
      [] c = "1" -> 49
      [] c = "2" -> 50
      [] c = "a" -> 97
      [] c = "b" -> 98
      [] c = "c" -> 99

\* char::is_whitespace
IsWhitespace(c) == c = " "

\* char::to_digit(10)
ToDigit(c) ==
    CASE c = "0" -> Some(0)
      [] c = "1" -> Some(1)
      [] c = "2" -> Some(2)
      [] OTHER -> None

\* Ord::cmp on integers
CmpInt(a, b) == IF a < b THEN "Less" ELSE IF a > b THEN "Greater" ELSE "Equal"

\* Ord::cmp on chars
CmpChar(a, b) == CmpInt(CharCode(a), CharCode(b))

\* Ordering::reverse
Reverse(o) == CASE o = "Less" -> "Greater" [] o = "Greater" -> "Less" [] OTHER -> "Equal"

\* Iterator::next on chars(): the i-th char, None past the end
ReadChar(s, i) == IF i <= Len(s) THEN Some(s[i]) ELSE None
ReadDigit(s, i) == IF i <= Len(s) THEN ToDigit(s[i]) ELSE None

RECURSIVE SkipWhitespace(_, _)
SkipWhitespace(s, i) ==
    IF i <= Len(s) /\ IsWhitespace(s[i]) THEN SkipWhitespace(s, i + 1) ELSE i

RECURSIVE NonDigits(_, _, _, _)
RECURSIVE DigitsLeft(_, _, _, _)
RECURSIVE DigitsRight(_, _, _, _, _)

\* the 'nondigits loop of compare_iter, entered with chars i and j read
NonDigits(left, right, i0, j0) ==
    LET i == SkipWhitespace(left, i0)
        j == SkipWhitespace(right, j0)
        l == ReadChar(left, i)
        r == ReadChar(right, j)
        ll == ReadDigit(left, i)
        rr == ReadDigit(right, j)
    IN  CASE IsSome(l) /\ IsSome(r) ->
                IF IsSome(ll) /\ IsSome(rr)
                THEN IF Unwrap(ll) = 0 \/ Unwrap(rr) = 0
                     THEN \* left-aligned matching (015 < 12)
                          IF CmpInt(Unwrap(ll), Unwrap(rr)) # "Equal"
                          THEN CmpInt(Unwrap(ll), Unwrap(rr))
                          ELSE DigitsLeft(left, right, i + 1, j + 1)
                     ELSE \* right-aligned matching (15 < 123)
                          DigitsRight(left, right, i + 1, j + 1,
                                      CmpInt(Unwrap(ll), Unwrap(rr)))
                ELSE IF CmpChar(Unwrap(l), Unwrap(r)) # "Equal"
                     THEN CmpChar(Unwrap(l), Unwrap(r))
                     ELSE NonDigits(left, right, i + 1, j + 1)
          [] IsSome(l) /\ ~IsSome(r) -> "Greater"
          [] ~IsSome(l) /\ IsSome(r) -> "Less"
          [] OTHER -> "Equal"

\* the 'digits_left loop: digit by digit, the first difference decides
DigitsLeft(left, right, i, j) ==
    LET ll == ReadDigit(left, i)
        rr == ReadDigit(right, j)
    IN  CASE IsSome(ll) /\ IsSome(rr) ->
                IF CmpInt(Unwrap(ll), Unwrap(rr)) # "Equal"
                THEN CmpInt(Unwrap(ll), Unwrap(rr))
                ELSE DigitsLeft(left, right, i + 1, j + 1)
          [] IsSome(ll) /\ ~IsSome(rr) -> "Greater"
          [] ~IsSome(ll) /\ IsSome(rr) -> "Less"
          [] OTHER -> NonDigits(left, right, i, j)

\* mutant: the first digits that differ decide, whatever the lengths
DigitsRight_FirstDifference(left, right, i, j, lastcmp) ==
    IF lastcmp # "Equal" THEN lastcmp ELSE DigitsLeft(left, right, i, j)

\* the 'digits_right loop: the longer run wins, else the first difference
DigitsRight(left, right, i, j, lastcmp) ==
    LET ll == ReadDigit(left, i)
        rr == ReadDigit(right, j)
    IN  CASE IsSome(ll) /\ IsSome(rr) ->
                DigitsRight(left, right, i + 1, j + 1,
                            IF lastcmp = "Equal"
                            THEN CmpInt(Unwrap(ll), Unwrap(rr))
                            ELSE lastcmp)
          [] IsSome(ll) /\ ~IsSome(rr) -> "Greater"
          [] ~IsSome(ll) /\ IsSome(rr) -> "Less"
          [] OTHER -> IF lastcmp # "Equal" THEN lastcmp
                      ELSE NonDigits(left, right, i, j)

\* natord::compare, as HumanCompare::cmp calls it
HumanCompare(left, right) == NonDigits(left, right, 1, 1)

-----------------------------------------------------------------------------
(* find_next_impl, next_path.rs:119-167 *)

\* Mode::Simple and Mode::Random { seed }
Simple == [kind |-> "Simple", seed |-> 0]
Random(seed) == [kind |-> "Random", seed |-> seed]

\* FxHasher on words of HashBits bits instead of 64: each word is rotated,
\* xored with the input and multiplied by the hasher's odd constant
HashBits == 8       \* width of the hash word
FxRotate == 5
FxK == 149
HashMod == 2 ^ HashBits

RECURSIVE BitXor(_, _)
BitXor(a, b) ==
    IF a = 0 THEN b
    ELSE IF b = 0 THEN a
    ELSE (((a % 2) + (b % 2)) % 2) + 2 * BitXor(a \div 2, b \div 2)

\* u64::rotate_left(5)
RotateLeft(h) ==
    ((h * (2 ^ FxRotate)) % HashMod) + (h \div (2 ^ (HashBits - FxRotate)))

\* FxHasher::add_to_hash: rotate_left(5), bitxor(i), wrapping_mul(K)
AddToHash(h, i) == (BitXor(RotateLeft(h), i % HashMod) * FxK) % HashMod

\* <str as Hash>::hash: the bytes of the name, then 0xff
RECURSIVE HashStr(_, _, _)
HashStr(h, s, i) ==
    IF i > Len(s) THEN AddToHash(h, 255)
    ELSE HashStr(AddToHash(h, CharCode(s[i])), s, i + 1)

\* fxhash(&(self.seed, s)): the seed is hashed first, then the name
FxHash(seed, s) == HashStr(AddToHash(0, seed), s, 1)

\* MakeFindNextKey::for_name: NoKey gives the unit key, WithHash the hash
ForName(mode, name) ==
    IF mode.kind = "Random" THEN FxHash(mode.seed, name) ELSE 0

\* FindNextItem { key, name }
Item(mode, name) == [key |-> ForName(mode, name), name |-> name]

\* #[derive(Ord)] on FindNextItem: by key, then by name (HumanCompare)
CmpItem(a, b) ==
    IF CmpInt(a.key, b.key) # "Equal"
    THEN CmpInt(a.key, b.key)
    ELSE HumanCompare(a.name, b.name)

\* mutant: Left is not mirrored
ForOrdering_NoReverse(direction, ordering) == ordering

\* Direction::for_ordering
ForOrdering(direction, ordering) ==
    IF direction = "Right" THEN ordering ELSE Reverse(ordering)

\* Direction::before
Before(direction, left, right) == ForOrdering(direction, CmpItem(left, right)) = "Less"

\* Direction::after
After(direction, left, right) == ForOrdering(direction, CmpItem(left, right)) = "Greater"

\* one iteration of the loop over dir.enumerate(); idx is the 0-based index
\* (acc is next_name and wrapped_name as the previous iteration left them)
ScanOne(direction, current, this, idx, before) ==
    CHOOSE after \in
        {[next |-> IF /\ After(direction, this, current)
                      /\ \/ ~IsSome(acc.next)
                         \/ Before(direction, this, Unwrap(acc.next).inner)
                   THEN Some([inner |-> this, idx |-> idx])
                   ELSE acc.next,
          wrapped |-> IF ~IsSome(acc.wrapped)
                         \/ Before(direction, this, Unwrap(acc.wrapped).inner)
                      THEN Some([inner |-> this, idx |-> idx])
                      ELSE acc.wrapped] : acc \in {before}} : TRUE

RECURSIVE Scan(_, _, _, _, _, _)
Scan(direction, current, dir, mode, i, acc) ==
    IF i > Len(dir) THEN acc
    ELSE Scan(direction, current, dir, mode, i + 1,
              ScanOne(direction, current, Item(mode, dir[i]), i - 1, acc))

\* mutant: no wrap-around, only a candidate after the current one is chosen
NextOrWrapped_NoWrap(acc) == acc.next

\* next_name.or(wrapped_name)
NextOrWrapped(acc) == IF IsSome(acc.next) THEN acc.next ELSE acc.wrapped

\* .map(|item| (item.inner.name.0, item.idx))
NameAndIdx(chosen) ==
    IF IsSome(chosen)
    THEN Some([name |-> Unwrap(chosen).inner.name, idx |-> Unwrap(chosen).idx])
    ELSE None

\* find_next_impl: one scan of dir, then the choice
FindNextImpl(direction, current_name, dir, mode) ==
    CHOOSE found \in
        {NameAndIdx(chosen) : chosen \in
            {NextOrWrapped(acc) : acc \in
                {Scan(direction, Item(mode, current_name), dir, mode,
                      1, [next |-> None, wrapped |-> None])}}} : TRUE

\* NextPath::find_next, next_path.rs:247-258
FindNext(args, current_name, items) ==
    FindNextImpl(args.direction, current_name, items, args.mode)

-----------------------------------------------------------------------------
(* The worker's state: navigation mode, cache, file system.               *)
(* A path is the name of a file of the one directory the viewer works in; *)
(* every path has a parent and a file name, as next_in_directory assumes. *)

\* the files that may exist, all of them of a recognized image format
Files == {<<"a">>, <<"b">>, <<"c">>}

\* bounds of the model
MaxCmds == 2        \* commands accepted by send in one run
MaxPaths == 2       \* length of the path list of Specified mode
CacheCapacity == 22 \* cache_size the worker is spawned with

\* the bound of both sync_channels
ChanCap == 1

\* every enumeration order of a set
Listings(S) == {s \in [1..Cardinality(S) -> S] : Range(s) = S}

\* read_dir_to_find_next_iterator: the image files of the directory, in any
\* order the file system yields them; only InDirectory mode lists it
ReadDir(mode, files) ==
    IF mode.kind = "InDirectory" THEN Listings(files) ELSE {<<>>}

\* the outcomes of readable_parent.read_dir()
ReadDirOk(mode) == IF mode.kind = "InDirectory" THEN BOOLEAN ELSE {TRUE}

\* NavigationMode, actor.rs:86-95
NavEmpty == [kind |-> "Empty", current |-> None, paths |-> <<>>, index |-> 0]
NavInDirectory(path) ==
    [kind |-> "InDirectory", current |-> Some(path), paths |-> <<>>, index |-> 0]
\* NavigationMode::specified
NavSpecified(paths) ==
    [kind |-> "Specified", current |-> None, paths |-> paths, index |-> 0]

\* NavigationMode::current_path; index is 0-based as in the code
CurrentPath(mode) ==
    CASE mode.kind = "InDirectory" -> mode.current
      [] mode.kind = "Specified" -> Some(mode.paths[mode.index + 1])
      [] OTHER -> None

\* App::new: no path is Empty, one is InDirectory, more are Specified
PathLists == UNION {[1..n -> Files] : n \in 2..MaxPaths}
NavModes ==
    {NavEmpty} \cup {NavInDirectory(p) : p \in Files}
               \cup {NavSpecified(ps) : ps \in PathLists}

\* next_name.map(|(next_name, _idx)| parent.join(next_name))
JoinParent(found) == IF IsSome(found) THEN Some(Unwrap(found).name) ELSE None

\* next_in_directory: Err when read_dir fails, else the chosen path
NextInDirectory(current_path, args, listing, listOk) ==
    IF ~listOk THEN [io |-> "Err", next |-> None]
    ELSE [io |-> "Ok", next |-> JoinParent(FindNext(args, current_path, listing))]

\* next_name.map(|(_, idx)| idx)
IdxOf(found) == IF IsSome(found) THEN Some(Unwrap(found).idx) ELSE None

\* next_in_list: the index of the chosen path
NextInList(list, current_path, args) == IdxOf(FindNext(args, current_path, list))

\* mutant: the chosen path is returned but current is not moved to it
StepInDirectory_Stale(mode, r) == [io |-> r.io, next |-> r.next, nav |-> mode]

\* InDirectory: .map(|next| { *current = next.into(); &*current })
StepInDirectory(mode, r) ==
    [io |-> r.io, next |-> r.next,
     nav |-> IF IsSome(r.next) THEN [mode EXCEPT !.current = r.next] ELSE mode]

\* mutant: the index is counted from 1
StepInList_OneBased(mode, i) ==
    [io |-> "Ok",
     next |-> IF IsSome(i) THEN Some(mode.paths[Unwrap(i) + 1]) ELSE None,
     nav |-> IF IsSome(i) THEN [mode EXCEPT !.index = Unwrap(i) + 1] ELSE mode]

\* mutant: the list is given up for the directory of the chosen path
StepInList_AsDirectory(mode, i) ==
    [io |-> "Ok",
     next |-> IF IsSome(i) THEN Some(mode.paths[Unwrap(i) + 1]) ELSE None,
     nav |-> IF IsSome(i) THEN NavInDirectory(mode.paths[Unwrap(i) + 1])
             ELSE mode]

\* mutant: the path at the index is returned but current stays
StepInList_KeepIndex(mode, i) ==
    [io |-> "Ok",
     next |-> IF IsSome(i) THEN Some(mode.paths[Unwrap(i) + 1]) ELSE None,
     nav |-> mode]

\* Specified: .map(|next| { *current = next; &paths[next] })
StepInList(mode, i) ==
    [io |-> "Ok",
     next |-> IF IsSome(i) THEN Some(mode.paths[Unwrap(i) + 1]) ELSE None,
     nav |-> IF IsSome(i) THEN [mode EXCEPT !.index = Unwrap(i)] ELSE mode]

\* NavigationMode::next_path: [io, next, nav] with nav the mode afterwards
NavNextPath(mode, args, listing, listOk) ==
    CASE mode.kind = "InDirectory" ->
            CHOOSE out \in
                {StepInDirectory(mode, r) : r \in
                    {NextInDirectory(Unwrap(mode.current), args,
                                     listing, listOk)}} : TRUE
      [] mode.kind = "Specified" ->
            CHOOSE out \in
                {StepInList(mode, i) : i \in
                    {NextInList(mode.paths, mode.paths[mode.index + 1],
                                args)}} : TRUE
      [] OTHER -> [io |-> "Ok", next |-> None, nav |-> mode]

\* usize, scaled to words of WordBits bits
WordBits == 6
WordMax == 2 ^ WordBits - 1

\* std::mem::size_of::<egui::Color32>()
PixelSize == 4

\* usize::saturating_mul
SaturatingMul(a, b) == IF a * b > WordMax THEN WordMax ELSE a * b

\* mutant: a frame is charged one byte a pixel
FrameSize_NoPixelSize(frame) == SaturatingMul(frame[1], frame[2])

\* the closure of size_in_memory: the bytes of one frame of [width, height]
FrameSize(frame) == SaturatingMul(SaturatingMul(frame[1], frame[2]), PixelSize)

\* the build profiles: usize addition panics on overflow where overflow
\* checks are on (debug) and wraps where they are off (release)
Builds == {"debug", "release"}

\* Iterator::sum over the frames, from the accumulator acc
RECURSIVE SumFrames(_, _, _)
SumFrames(acc, frames, build) ==
    IF frames = <<>> THEN [panic |-> FALSE, value |-> acc]
    ELSE IF acc + FrameSize(Head(frames)) > WordMax /\ build = "debug"
         THEN [panic |-> TRUE, value |-> 0]
         ELSE SumFrames((acc + FrameSize(Head(frames))) % (WordMax + 1),
                        Tail(frames), build)

\* Image::size_in_memory: [panic, value]
SizeInMemory(frames, build) == SumFrames(0, frames, build)

\* the frames Image::load decodes from each file, as [width, height]; the
\* frames of one image have one size (read.rs:123-133)
Frames(path) ==
    CASE path = <<"a">> -> << <<1, 1>> >>
      [] path = <<"b">> -> << <<2, 1>> >>
      [] OTHER -> << <<1, 1>>, <<1, 1>>, <<1, 1>> >>

\* ImageSizeWeight::weight: image.size_in_memory(), the same in both builds
\* for images of this size
Weight(path) == SizeInMemory(Frames(path), "release").value

\* CLruCache: the keys, most recently used first, the image stored under
\* each key, the weight counter and the capacity.  An image is named by the
\* number of the command whose Image::load call made it (0: the startup load)
EmptyCache(capacity) ==
    [lru |-> <<>>, images |-> <<>>, weight |-> 0, capacity |-> capacity]

\* the cache_size values a worker is spawned with: one that the largest image
\* does not fit, and one that holds two images
CacheSizes == {Weight(<<"c">>), CacheCapacity}

\* CLruCache::weight
TotalWeight(c) == c.weight

SelectSeq2(s, x) == SelectSeq(s, LAMBDA y : y # x)

\* storage.pop_back() and self.weight -= weight of the dropped entry
PopBack(c) ==
    [lru |-> SubSeq(c.lru, 1, Len(c.lru) - 1),
     images |-> SubSeq(c.images, 1, Len(c.lru) - 1),
     weight |-> c.weight - Weight(c.lru[Len(c.lru)]),
     capacity |-> c.capacity]

\* mutant: nothing is dropped to make room
EvictFor_Keep(c, weight) == c

\* the loop of put_with_weight: least recently used entries are dropped
\* while len + weight of the cache + weight of the new entry >= capacity
RECURSIVE EvictFor(_, _)
EvictFor(c, weight) ==
    IF c.lru # <<>> /\ Len(c.lru) + TotalWeight(c) + weight >= c.capacity
    THEN EvictFor(PopBack(c), weight)
    ELSE c

\* storage.push_front(node) and self.weight += weight
PushFront(c, path, image, weight) ==
    [lru |-> <<path>> \o c.lru, images |-> <<image>> \o c.images,
     weight |-> c.weight + weight, capacity |-> c.capacity]

\* mutant: an entry is refused only when it weighs more than the capacity
Refused_OnlyAbove(c, weight) == weight > c.capacity

\* if weight >= self.capacity() { return Err((key, value)) }
Refused(c, weight) == weight >= c.capacity

\* CLruCache::put_with_weight of a key that is not cached: refused when the
\* weight alone reaches the capacity, else inserted after making room
PutWithWeight(c, path, image) ==
    IF Refused(c, Weight(path)) THEN c
    ELSE CHOOSE out \in
            {PushFront(room, path, image, Weight(path)) : room \in
                {EvictFor(c, Weight(path))}} : TRUE

\* the position of a cached key
RECURSIVE IndexOf(_, _)
IndexOf(s, x) == IF Head(s) = x THEN 1 ELSE 1 + IndexOf(Tail(s), x)

\* the image stored under a cached key
CachedImage(c, path) == c.images[IndexOf(c.lru, path)]

\* the sequence without its k-th element
Without(s, k) == SubSeq(s, 1, k - 1) \o SubSeq(s, k + 1, Len(s))

\* CLruCache::get of a cached key: the entry becomes the most recently used
Get(c, path) ==
    [c EXCEPT !.lru = <<path>> \o Without(c.lru, IndexOf(c.lru, path)),
              !.images = <<CachedImage(c, path)>>
                            \o Without(c.images, IndexOf(c.lru, path))]

\* Image::load: fails for a file that does not exist, may fail for one that does
Decode(files, path, decodeOk) == decodeOk /\ path \in files

\* mutant: the image is decoded again although it is cached
LoadImage__Redecode(c, files, path, decodeOk, tag) ==
    IF Decode(files, path, decodeOk)
    THEN [cache |-> IF path \in Range(c.lru) THEN Get(c, path)
                    ELSE PutWithWeight(c, path, tag),
          image |-> "Ok", id |-> tag]
    ELSE [cache |-> c, image |-> "Err", id |-> tag]

\* Actor::load_image_, called while command tag is executed: [cache, image,
\* id], by a cache hit or by a decode and an insert whose failure is dropped
LoadImage_(c, files, path, decodeOk, tag) ==
    IF path \in Range(c.lru)
    THEN [cache |-> Get(c, path), image |-> "Ok", id |-> CachedImage(c, path)]
    ELSE IF Decode(files, path, decodeOk)
         THEN [cache |-> PutWithWeight(c, path, tag), image |-> "Ok", id |-> tag]
         ELSE [cache |-> c, image |-> "Err", id |-> tag]

\* Response values; tag is the number of the command answered (0: startup),
\* id names the image of a LoadImage response
RespLoadImage(tag, path, image, id) ==
    [tag |-> tag, kind |-> "LoadImage", path |-> Some(path), image |-> image,
     id |-> id]
RespNoOp(tag) ==
    [tag |-> tag, kind |-> "NoOp", path |-> None, image |-> "-", id |-> tag]
RespErr(tag) ==
    [tag |-> tag, kind |-> "IoError", path |-> None, image |-> "-", id |-> tag]

\* Response::LoadImage(LoadedImage { path, image })
Loaded(loaded, path, tag) ==
    [cache |-> loaded.cache, resp |-> RespLoadImage(tag, path, loaded.image, loaded.id)]

\* Actor::load_image: [cache, resp]
LoadImage(c, files, path, decodeOk, tag) ==
    CHOOSE out \in
        {Loaded(loaded, path, tag) : loaded \in
            {LoadImage_(c, files, path, decodeOk, tag)}} : TRUE

\* mutant: a listing that fails empties the cache
LoadNext_ClearOnError(r, mode, c, files, decodeOk, tag) ==
    IF r.io = "Err"
    THEN [nav |-> mode, cache |-> EmptyCache(c.capacity), resp |-> RespErr(tag)]
    ELSE IF ~IsSome(r.next)
         THEN [nav |-> r.nav, cache |-> c, resp |-> RespNoOp(tag)]
         ELSE CHOOSE out \in
                {[nav |-> r.nav, cache |-> l.cache, resp |-> l.resp] : l \in
                    {LoadImage(c, files, Unwrap(r.next), decodeOk, tag)}} : TRUE

\* mutant: with no candidate the current path is loaded again
LoadNext_LoadCurrent(r, mode, c, files, decodeOk, tag) ==
    IF r.io = "Err" THEN [nav |-> mode, cache |-> c, resp |-> RespErr(tag)]
    ELSE IF ~IsSome(r.next)
         THEN IF IsSome(CurrentPath(mode))
              THEN CHOOSE out \in
                     {[nav |-> r.nav, cache |-> l.cache, resp |-> l.resp] : l \in
                         {LoadImage(c, files, Unwrap(CurrentPath(mode)),
                                    decodeOk, tag)}} : TRUE
              ELSE [nav |-> r.nav, cache |-> c, resp |-> RespNoOp(tag)]
         ELSE CHOOSE out \in
                {[nav |-> r.nav, cache |-> l.cache, resp |-> l.resp] : l \in
                    {LoadImage(c, files, Unwrap(r.next), decodeOk, tag)}} : TRUE

\* mutant: a candidate whose decode fails is not made the current path
LoadNext_StayOnError(r, mode, c, files, decodeOk, tag) ==
    IF r.io = "Err" THEN [nav |-> mode, cache |-> c, resp |-> RespErr(tag)]
    ELSE IF ~IsSome(r.next)
         THEN [nav |-> r.nav, cache |-> c, resp |-> RespNoOp(tag)]
         ELSE CHOOSE out \in
                {[nav |-> IF l.resp.image = "Err" THEN mode ELSE r.nav,
                  cache |-> l.cache, resp |-> l.resp] : l \in
                    {LoadImage(c, files, Unwrap(r.next), decodeOk, tag)}} : TRUE

\* Actor::next_path after self.state.next_path(args) returned r
LoadNext(r, mode, c, files, decodeOk, tag) ==
    IF r.io = "Err" THEN [nav |-> mode, cache |-> c, resp |-> RespErr(tag)]
    ELSE IF ~IsSome(r.next)
         THEN [nav |-> r.nav, cache |-> c, resp |-> RespNoOp(tag)]
         ELSE CHOOSE out \in
                {[nav |-> r.nav, cache |-> l.cache, resp |-> l.resp] : l \in
                    {LoadImage(c, files, Unwrap(r.next), decodeOk, tag)}} : TRUE

\* Actor::next_path: [nav, cache, resp]
ActorNextPath(mode, c, files, args, listing, listOk, decodeOk, tag) ==
    CHOOSE out \in
        {LoadNext(r, mode, c, files, decodeOk, tag) : r \in
            {NavNextPath(mode, args, listing, listOk)}} : TRUE

\* NextPath::RIGHT, NextPath::LEFT
RIGHT == [direction |-> "Right", mode |-> Simple]
LEFT == [direction |-> "Left", mode |-> Simple]

\* Command values; id is the number of the send that was accepted
CmdNextPath(args) == [kind |-> "NextPath", args |-> args, path |-> None]
CmdDeleteFile(path) == [kind |-> "DeleteFile", args |-> RIGHT, path |-> Some(path)]
Commands == {CmdNextPath(RIGHT), CmdNextPath(LEFT)} \cup {CmdDeleteFile(p) : p \in Files}
WithId(command, id) ==
    [kind |-> command.kind, args |-> command.args, path |-> command.path, id |-> id]

-----------------------------------------------------------------------------
(* find_next as a function: SpecFind draws a current name and a candidate *)
(* sequence and applies find_next step by step, as a caller that makes    *)
(* each result its new current name.                                      *)

\* names with digit runs, whitespace and plain letters
NameUniverse == {<<"a">>, <<"a", "b">>, <<"a", " ", "b">>, <<"a", "2">>,
                 <<"a", "1", "0">>}

MaxDir == 3         \* length of the candidate sequence

Directions == {"Left", "Right"}

MaxSeed == 2        \* seeds 0..MaxSeed

\* the seeds of Mode::Random
Seeds == 0..MaxSeed

FindIdle ==
    fnDir = <<>> /\ fnCurrent = <<>> /\ fnMode = Simple /\ fnTrail = <<>>

FindInit ==
    /\ fnDir \in UNION {[1..n -> NameUniverse] : n \in 0..MaxDir}
    /\ fnCurrent \in NameUniverse
    /\ fnMode = Simple
    /\ fnTrail = <<>>

\* names for Random mode: plain names, and names that differ in whitespace
RandomUniverse == {<<"a">>, <<"a", "2">>, <<"a", " ", "b">>,
                   <<" ", "b", "b">>, <<"b", " ", "b", " ">>}

\* the same with Mode::Random { seed }
FindInitRandom ==
    /\ fnDir \in UNION {[1..n -> RandomUniverse] : n \in 0..MaxDir}
    /\ fnCurrent \in RandomUniverse
    /\ fnMode \in {Random(seed) : seed \in Seeds}
    /\ fnTrail = <<>>

\* one call of find_next; the caller moves to the result
FindStep(direction) ==
    LET args == [direction |-> direction, mode |-> fnMode]
        found == FindNext(args, fnCurrent, fnDir)
    IN  /\ Len(fnTrail) < Len(fnDir) \/ fnTrail = <<>>
        /\ fnTrail' = Append(fnTrail, [direction |-> direction,
                                       current |-> fnCurrent,
                                       found |-> found])
        /\ fnCurrent' = IF IsSome(found) THEN Unwrap(found).name ELSE fnCurrent
        /\ UNCHANGED <<fnDir, fnMode, actorVars, cmpVars, sizeVars, configVars,
                     uiVars, listVars>>

-----------------------------------------------------------------------------
(* HumanCompare as a function: SpecCompare draws two names and applies    *)
(* Ord::cmp both ways and Eq::eq to them.                                 *)

\* letters, whitespace and digits
CompareAlphabet == {"a", " ", "0", "1", "2"}

MaxName == 3        \* length of a compared name

CompareNames == UNION {[1..n -> CompareAlphabet] : n \in 1..MaxName}

CompareIdle == cmpLeft = <<>> /\ cmpRight = <<>> /\ cmpOut = None

CompareInit ==
    /\ cmpLeft \in CompareNames
    /\ cmpRight \in CompareNames
    /\ cmpOut = None

\* HumanCompare::eq compares the strings themselves
HumanEq(left, right) == left = right

\* left.cmp(&right), right.cmp(&left) and left == right
CompareStep ==
    /\ cmpOut = None
    /\ cmpOut' = Some([lr |-> HumanCompare(cmpLeft, cmpRight),
                       rl |-> HumanCompare(cmpRight, cmpLeft),
                       eq |-> HumanEq(cmpLeft, cmpRight)])
    /\ UNCHANGED <<cmpLeft, cmpRight, actorVars, findVars, sizeVars,
                   configVars, uiVars, listVars>>

-----------------------------------------------------------------------------
(* size_in_memory as a function: SpecSize draws the frames of an image and *)
(* the build profile, and calls it once.                                  *)

\* widths and heights, from empty to ones whose product passes the word
Dims == {0, 1, 2, 4, 8}

MaxFrames == 2      \* frames of a measured image

FrameLists == UNION {[1..n -> Dims \X Dims] : n \in 0..MaxFrames}

SizeIdle == szFrames = <<>> /\ szBuild = "release" /\ szOut = None

SizeInit ==
    /\ szFrames \in FrameLists
    /\ szBuild \in Builds
    /\ szOut = None

\* image.size_in_memory()
SizeStep ==
    /\ szOut = None
    /\ szOut' = Some(SizeInMemory(szFrames, szBuild))
    /\ UNCHANGED <<szFrames, szBuild, actorVars, findVars, cmpVars,
                   configVars, uiVars, listVars>>

-----------------------------------------------------------------------------
(* The Handle, on the UI thread: actor.rs:129-204 *)

\* what a call of the Handle returned: SendResult, or Option<Response>
NoCall == [call |-> "none", result |-> "-", response |-> None]
Returned(call, result, response) ==
    [call |-> call, result |-> result, response |-> response]

\* mutant: send never refuses
SendRefused_Never == FALSE

\* if self.waiting { return SendResult::AlreadyWaiting; }
SendRefused == waiting

\* mutant: a polled response leaves the handle waiting
WaitingAfterPoll_Stays == waiting

\* Ok(response) => { self.waiting = false; ... }
WaitingAfterPoll == FALSE

\* mutant: the worker looks at the queued command without taking it
AfterRecv_Peek(chan) == chan

\* command_receiver.recv() takes the oldest queued command
AfterRecv(chan) == Tail(chan)

ActorIdle ==
    /\ waiting = FALSE /\ cmdChan = <<>> /\ respChan = <<>> /\ uiBlocked = None
    /\ uiRet = NoCall /\ actorPc = "recv" /\ actorCmd = None /\ actorResp = None
    /\ nav = NavEmpty /\ cache = EmptyCache(CacheCapacity) /\ fs = {}
    /\ navInit = NavEmpty /\ nSent = 0 /\ nRecv = 0 /\ nExecuted = 0
    /\ respLog = <<>> /\ polled = <<>>

\* the settings of a run that does not use them
ConfigIdle == cfgCacheSize = CacheCapacity

\* Config::ui, the Cache Size row: the setting takes the size entered unless
\* it is 0; nothing else is done with it
ConfigUi ==
    /\ \E size \in CacheSizes \cup {0} :
          cfgCacheSize' = IF size # 0 THEN size ELSE cfgCacheSize
    /\ UNCHANGED <<actorVars, findVars, cmpVars, sizeVars, uiVars, listVars>>

\* Handle::spawn with cache_size = config.cache_size (App::new): both
\* channels empty, the worker about to run, waiting set
Spawn ==
    /\ waiting = TRUE
    /\ cmdChan = <<>>
    /\ respChan = <<>>
    /\ uiBlocked = None
    /\ uiRet = NoCall
    /\ actorPc = "load_initial_image"
    /\ actorCmd = None
    /\ actorResp = None
    /\ nav \in NavModes
    /\ cache = EmptyCache(cfgCacheSize)
    /\ fs \in SUBSET Files
    /\ navInit = nav
    /\ nSent = 0 /\ nRecv = 0 /\ nExecuted = 0
    /\ respLog = <<>>
    /\ polled = <<>>

\* Handle::send: refuse while waiting, else the blocking SyncSender::send,
\* which returns at once when the buffer has room and blocks when it is full
Send(command) ==
    /\ uiBlocked = None
    /\ SendRefused \/ nSent < MaxCmds
    /\ IF SendRefused
       THEN /\ uiRet' = Returned("send", "AlreadyWaiting", None)
            /\ UNCHANGED <<waiting, cmdChan, uiBlocked, nSent>>
       ELSE IF Len(cmdChan) < ChanCap
            THEN /\ cmdChan' = Append(cmdChan, WithId(command, nSent + 1))
                 /\ waiting' = TRUE
                 /\ nSent' = nSent + 1
                 /\ uiRet' = Returned("send", "Sent", None)
                 /\ UNCHANGED uiBlocked
            ELSE /\ uiBlocked' = Some(WithId(command, nSent + 1))
                 /\ UNCHANGED <<waiting, cmdChan, nSent, uiRet>>
    /\ UNCHANGED <<respChan, actorPc, actorCmd, actorResp, nav, cache, fs,
                   navInit, nRecv, nExecuted, respLog, polled, pureVars>>

\* Handle::next_path
HandleNextPath == \E args \in {RIGHT, LEFT} : Send(CmdNextPath(args))

\* Handle::delete_file
HandleDeleteFile == \E file \in Files : Send(CmdDeleteFile(file))

\* Handle::poll_response: try_recv, never blocking
PollResponse ==
    /\ uiBlocked = None
    /\ IF respChan # <<>>
       THEN /\ waiting' = WaitingAfterPoll
            /\ uiRet' = Returned("poll_response", "Some", Some(Head(respChan)))
            /\ respChan' = Tail(respChan)
            /\ polled' = Append(polled, Head(respChan).tag)
       ELSE /\ uiRet' = Returned("poll_response", "None", None)
            /\ UNCHANGED <<waiting, respChan, polled>>
    /\ UNCHANGED <<cmdChan, uiBlocked, actorPc, actorCmd, actorResp, nav, cache,
                   fs, navInit, nSent, nRecv, nExecuted, respLog, pureVars>>

-----------------------------------------------------------------------------
(* The Actor, on the worker thread: actor.rs:243-306 *)

\* mutant: the startup load answers NoOp whatever the current path
InitialImage_NoOp(mode, c, files, decodeOk) == [cache |-> c, resp |-> RespNoOp(0)]

\* the response of load_initial_image: [cache, resp]
InitialImage(mode, c, files, decodeOk) ==
    IF IsSome(CurrentPath(mode))
    THEN LoadImage(c, files, Unwrap(CurrentPath(mode)), decodeOk, 0)
    ELSE [cache |-> c, resp |-> RespNoOp(0)]

\* Actor::load_initial_image up to its send_response
LoadInitialImage ==
    /\ actorPc = "load_initial_image"
    /\ actorPc' = "send_response"
    /\ UNCHANGED <<waiting, cmdChan, respChan, uiBlocked, uiRet, actorCmd, nav,
                   fs, navInit, nSent, nRecv, nExecuted, respLog, polled, pureVars>>
    /\ \E decodeOk \in BOOLEAN :
          \E l \in {InitialImage(nav, cache, fs, decodeOk)} :
             actorResp' = Some(l.resp) /\ cache' = l.cache

\* Actor::send_response: the blocking send of the computed response; then
\* the worker is at the top of the loop of Actor::run
SendResponse ==
    /\ actorPc = "send_response"
    /\ Len(respChan) < ChanCap
    /\ respChan' = Append(respChan, Unwrap(actorResp))
    /\ respLog' = Append(respLog, Unwrap(actorResp).tag)
    /\ actorResp' = None
    /\ actorCmd' = None
    /\ actorPc' = "recv"
    /\ UNCHANGED <<waiting, cmdChan, uiBlocked, uiRet, nav, cache, fs, navInit,
                   nSent, nRecv, nExecuted, polled, pureVars>>

\* command_receiver.recv() in Actor::run; taking the command frees the
\* buffer, which lets a sender blocked on it complete its send
Recv ==
    /\ actorPc = "recv"
    /\ cmdChan # <<>>
    /\ actorCmd' = Some(Head(cmdChan))
    /\ nRecv' = nRecv + 1
    /\ actorPc' = "run_command"
    /\ IF IsSome(uiBlocked)
       THEN /\ cmdChan' = Append(AfterRecv(cmdChan), Unwrap(uiBlocked))
            /\ uiBlocked' = None
            /\ waiting' = TRUE
            /\ nSent' = nSent + 1
            /\ uiRet' = Returned("send", "Sent", None)
       ELSE /\ cmdChan' = AfterRecv(cmdChan)
            /\ UNCHANGED <<uiBlocked, waiting, nSent, uiRet>>
    /\ UNCHANGED <<respChan, actorResp, nav, cache, fs, navInit, nExecuted,
                   respLog, polled, pureVars>>

\* the worker's state and answer once next_path returned r
WithFiles(r, files) ==
    [nav |-> r.nav, cache |-> r.cache, fs |-> files, resp |-> r.resp]

\* mutant: every DeleteFile that removed its file goes on to the next path
RunCommandResult_AlwaysNext(command, mode, c, files, removeOk, listing, listOk, decodeOk) ==
    IF command.kind = "NextPath"
    THEN CHOOSE out \in
            {WithFiles(r, files) : r \in
                {ActorNextPath(mode, c, files, command.args, listing, listOk,
                               decodeOk, command.id)}} : TRUE
    ELSE IF ~removeOk \/ Unwrap(command.path) \notin files
         THEN [nav |-> mode, cache |-> c, fs |-> files,
               resp |-> RespErr(command.id)]
         ELSE CHOOSE out \in
                 {WithFiles(r, files \ {Unwrap(command.path)}) : r \in
                     {ActorNextPath(mode, c, files \ {Unwrap(command.path)},
                                    RIGHT, listing, listOk, decodeOk,
                                    command.id)}} : TRUE

\* Actor::run_command: [nav, cache, fs, resp]
RunCommandResult(command, mode, c, files, removeOk, listing, listOk, decodeOk) ==
    IF command.kind = "NextPath"
    THEN CHOOSE out \in
            {WithFiles(r, files) : r \in
                {ActorNextPath(mode, c, files, command.args, listing, listOk,
                               decodeOk, command.id)}} : TRUE
    ELSE IF ~removeOk \/ Unwrap(command.path) \notin files
         THEN [nav |-> mode, cache |-> c, fs |-> files,
               resp |-> RespErr(command.id)]
         ELSE IF command.path = CurrentPath(mode)
              THEN CHOOSE out \in
                      {WithFiles(r, files \ {Unwrap(command.path)}) : r \in
                          {ActorNextPath(mode, c, files \ {Unwrap(command.path)},
                                         RIGHT, listing, listOk, decodeOk,
                                         command.id)}} : TRUE
              ELSE [nav |-> mode, cache |-> c,
                    fs |-> files \ {Unwrap(command.path)},
                    resp |-> RespNoOp(command.id)]

\* the files left by std::fs::remove_file(&path)
FilesAfter(command, files, removeOk) ==
    IF command.kind = "DeleteFile" /\ removeOk
    THEN files \ {Unwrap(command.path)} ELSE files

\* the outcomes of std::fs::remove_file, which only DeleteFile calls
RemoveFileOk(command) == IF command.kind = "DeleteFile" THEN BOOLEAN ELSE {TRUE}

\* mutant: a command that fails with an I/O error is not answered
AfterRunCommand_DropError(resp) ==
    IF resp.kind = "IoError" THEN "recv" ELSE "send_response"

\* self.send_response(response) follows run_command whatever it returned
AfterRunCommand(resp) == "send_response"

\* let response = self.run_command(command), with every outcome of the
\* file system and of the decoder
RunCommand ==
    /\ actorPc = "run_command"
    /\ nExecuted' = nExecuted + 1
    /\ UNCHANGED <<waiting, cmdChan, respChan, uiBlocked, uiRet, actorCmd,
                   navInit, nSent, nRecv, respLog, polled, pureVars>>
    /\ \E removeOk \in RemoveFileOk(Unwrap(actorCmd)),
          listOk \in ReadDirOk(nav), decodeOk \in BOOLEAN :
          \E listing \in ReadDir(nav, FilesAfter(Unwrap(actorCmd), fs, removeOk)) :
             \E r \in {RunCommandResult(Unwrap(actorCmd), nav, cache, fs, removeOk,
                                        listing, listOk, decodeOk)} :
                /\ nav' = r.nav
                /\ cache' = r.cache
                /\ fs' = r.fs
                /\ actorResp' = Some(r.resp)
                /\ actorPc' = AfterRunCommand(r.resp)

-----------------------------------------------------------------------------
(* The UI's State: state/mod.rs.  It keeps its own cache and current      *)
(* entry, calls its actor and handles the actor's responses.  Its actor   *)
(* is the environment: the calls made on it are recorded, and             *)
(* poll_response may return any response.  Of State::next_path the        *)
(* InDirectory branch is modelled; the Specified branch returns a path    *)
(* that the caller opens, which is Open.                                  *)

MaxCalls == 2       \* calls State makes on its actor
MaxResponses == 2   \* responses State handles
MaxErrors == 2      \* error records State creates

\* the State as a record of its fields and of the calls it made
UiState(c, current, errors, counter, calls) ==
    [cache |-> c, current |-> current, errors |-> errors, counter |-> counter,
     calls |-> calls]

\* OpenImage { inner, path }: inner is Ok with an image or an error
OpenImage(path, inner, image) == [path |-> path, inner |-> inner, image |-> image]

\* a call on the actor: load_image, next_path or trash_file
ActorCall(op, path, direction) == [op |-> op, path |-> path, direction |-> direction]

\* Response::LoadImage(path, loaded) and Response::NextPath(next) of that
\* actor; next is Some, NoOthers, NoFilesAtAll or Err
UiLoadImage(path, loaded) == [kind |-> "LoadImage", path |-> path, value |-> loaded]
UiNextPath(next, path) == [kind |-> "NextPath", path |-> path, value |-> next]
UiResponses ==
    {UiLoadImage(p, l) : p \in Files, l \in {"Ok", "Err"}}
        \cup {UiNextPath("Some", p) : p \in Files}
        \cup {UiNextPath(n, <<>>) : n \in {"NoOthers", "NoFilesAtAll", "Err"}}

\* CLruCache::pop: the entry is removed and its weight subtracted
Pop(c, path) ==
    IF path \notin Range(c.lru) THEN c
    ELSE [c EXCEPT !.lru = Without(c.lru, IndexOf(c.lru, path)),
                   !.images = Without(c.images, IndexOf(c.lru, path)),
                   !.weight = c.weight - Weight(path)]

\* CLruCache::put_with_weight of any key: a cached key is replaced
PutAny(c, path, image) ==
    IF Refused(c, Weight(path)) THEN c
    ELSE CHOOSE out \in
            {PutWithWeight(rest, path, image) : rest \in {Pop(c, path)}} : TRUE

\* mutant: open asks the actor whether or not the path is cached
StateOpen_AlwaysAsk(st, path) ==
    [st EXCEPT !.calls = Append(st.calls, ActorCall("load_image", path, "-"))]

\* State::open
StateOpen(st, path) ==
    IF path \in Range(st.cache.lru)
    THEN [st EXCEPT !.cache = Get(st.cache, path),
                    !.current = Some(OpenImage(path, "Ok",
                                               CachedImage(st.cache, path)))]
    ELSE [st EXCEPT !.calls = Append(st.calls, ActorCall("load_image", path, "-"))]

\* egui::Id::new("image-state-error").with(counter): one id per counter value
ErrorId(counter) == <<"image-state-error", counter>>

\* mutant: every record gets the id of the first
PushError_SameId(st, error) ==
    [st EXCEPT !.errors = Append(st.errors, [id |-> ErrorId(0), error |-> error]),
               !.counter = st.counter + 1]

\* State::push_error
PushError(st, error) ==
    [st EXCEPT !.errors = Append(st.errors,
                                 [id |-> ErrorId(st.counter), error |-> error]),
               !.counter = st.counter + 1]

\* the LoadImage arm of handle_actor_responses, for a decoded image: an
\* insert that the cache refuses becomes the error of the entry
HandleLoaded(st, path, image) ==
    IF Refused(st.cache, Weight(path))
    THEN [st EXCEPT !.current = Some(OpenImage(path, "Err", image))]
    ELSE [st EXCEPT !.cache = PutAny(st.cache, path, image),
                    !.current = Some(OpenImage(path, "Ok", image))]

\* the NoFilesAtAll arm: the current path leaves the cache, current is None
HandleNoFilesAtAll(st) ==
    [st EXCEPT !.cache = IF IsSome(st.current)
                         THEN Pop(st.cache, Unwrap(st.current).path)
                         ELSE st.cache,
               !.current = None]

\* one turn of the loop of handle_actor_responses; image names the image a
\* LoadImage response carries
HandleResponse(st, response, image) ==
    CASE response.kind = "LoadImage" /\ response.value = "Ok" ->
            HandleLoaded(st, response.path, image)
      [] response.kind = "LoadImage" /\ response.value = "Err" ->
            [st EXCEPT !.current = Some(OpenImage(response.path, "Err", image))]
      [] response.kind = "NextPath" /\ response.value = "Some" ->
            StateOpen(st, response.path)
      [] response.kind = "NextPath" /\ response.value = "NoOthers" -> st
      [] response.kind = "NextPath" /\ response.value = "NoFilesAtAll" ->
            HandleNoFilesAtAll(st)
      [] OTHER -> PushError(st, "error")

\* show_errors_inner: self.errors.retain(..), the acknowledged records go
Retain(errors, acknowledged) ==
    SelectSeq(errors, LAMBDA e : e.id \notin acknowledged)

\* a method of State and what it was given: a path, a response (path and
\* value) or the ids of the records acknowledged
Ran(op, path, value, acknowledged) ==
    [op |-> op, path |-> path, value |-> value, acknowledged |-> acknowledged]

UiIdle ==
    /\ uiCache = EmptyCache(CacheCapacity) /\ uiCurrent = None
    /\ uiErrors = <<>> /\ errorsIdCounter = 0 /\ uiCalls = <<>> /\ uiHandled = 0
    /\ uiLast = Ran("new", <<>>, "-", {})

\* State::new
UiInit ==
    /\ uiCache = EmptyCache(cfgCacheSize)
    /\ uiCurrent = None
    /\ uiErrors = <<>>
    /\ errorsIdCounter = 0
    /\ uiCalls = <<>>
    /\ uiHandled = 0
    /\ uiLast = Ran("new", <<>>, "-", {})

\* the State after a step that ended in st
UiBecomes(st) ==
    /\ Len(st.calls) <= MaxCalls
    /\ st.counter <= MaxErrors
    /\ uiCache' = st.cache
    /\ uiCurrent' = st.current
    /\ uiErrors' = st.errors
    /\ errorsIdCounter' = st.counter
    /\ uiCalls' = st.calls

UiNow == UiState(uiCache, uiCurrent, uiErrors, errorsIdCounter, uiCalls)

UiRest == <<actorVars, findVars, cmpVars, sizeVars, configVars, listVars>>

\* State::open(path)
UiOpen ==
    \E path \in Files :
        /\ \E st \in {StateOpen(UiNow, path)} : UiBecomes(st)
        /\ uiLast' = Ran("open", path, "-", {})
        /\ UNCHANGED <<uiHandled, UiRest>>

\* State::next_path(direction), InDirectory
UiNextPathInDirectory ==
    \E direction \in Directions :
        /\ IsSome(uiCurrent)
        /\ Len(uiCalls) < MaxCalls
        /\ uiCalls' = Append(uiCalls, ActorCall("next_path",
                                                Unwrap(uiCurrent).path, direction))
        /\ uiLast' = Ran("next_path", <<>>, direction, {})
        /\ UNCHANGED <<uiCache, uiCurrent, uiErrors, errorsIdCounter,
                       uiHandled, UiRest>>

\* State::trash_current
UiTrashCurrent ==
    /\ IsSome(uiCurrent)
    /\ Len(uiCalls) < MaxCalls
    /\ uiCalls' = Append(uiCalls, ActorCall("trash_file",
                                            Unwrap(uiCurrent).path, "-"))
    /\ uiLast' = Ran("trash_current", <<>>, "-", {})
    /\ UNCHANGED <<uiCache, uiCurrent, uiErrors, errorsIdCounter, uiHandled,
                   UiRest>>

\* handle_actor_responses, one response taken from poll_response
UiHandleResponse ==
    \E response \in UiResponses :
        /\ uiHandled < MaxResponses
        /\ uiHandled' = uiHandled + 1
        /\ \E st \in {HandleResponse(UiNow, response, uiHandled)} : UiBecomes(st)
        /\ uiLast' = Ran(response.kind, response.path, response.value, {})
        /\ UNCHANGED UiRest

\* show_errors: the records whose Ok button was clicked are acknowledged
UiShowErrors ==
    \E acknowledged \in SUBSET {e.id : e \in Range(uiErrors)} :
        /\ acknowledged # {}
        /\ uiErrors' = Retain(uiErrors, acknowledged)
        /\ uiLast' = Ran("show_errors", <<>>, "-", acknowledged)
        /\ UNCHANGED <<uiCache, uiCurrent, errorsIdCounter, uiCalls, uiHandled,
                       UiRest>>

\* internal_ui, the Empty button: self.cache.clear()
UiClearCache ==
    /\ uiCache.lru # <<>>
    /\ uiCache' = EmptyCache(uiCache.capacity)
    /\ uiLast' = Ran("clear", <<>>, "-", {})
    /\ UNCHANGED <<uiCurrent, uiErrors, errorsIdCounter, uiCalls, uiHandled,
                   UiRest>>

-----------------------------------------------------------------------------
(* NavigationMode::next_path on a list: SpecList draws the paths of a     *)
(* Specified mode and the random seed of the worker's State and applies   *)
(* State::next_path step by step.                                         *)

MaxList == 3        \* length of the path list

\* paths with digit runs, so that the list order is not the natural order
ListNames == {<<"a">>, <<"a", "2">>, <<"a", "1", "0">>, <<"b">>}

\* actor.rs NextPath { direction, mode }: RIGHT, LEFT, RANDOM and the like
ActorArgs == [direction : Directions, mode : {"Simple", "Random"}]

\* NextPath::with_random_seed
WithRandomSeed(args, seed) ==
    [direction |-> args.direction,
     mode |-> IF args.mode = "Random" THEN Random(seed) ELSE Simple]

ListIdle == lsNav = NavEmpty /\ lsSeed = 0 /\ lsTrail = <<>>

\* two paths that differ only in whitespace
TiedNames == {<<" ", "b", "b">>, <<"b", " ", "b", " ">>}

\* App::new with two paths or more: NavigationMode::specified(paths); the
\* lists are those over ListNames and the two of the paths of TiedNames
ListInit ==
    /\ lsNav \in {NavSpecified(ps) :
                     ps \in UNION {[1..n -> ListNames] : n \in 2..MaxList}
                            \cup {t \in [1..2 -> TiedNames] : t[1] # t[2]}}
    /\ lsSeed \in Seeds
    /\ lsTrail = <<>>

\* State::next_path(args), actor.rs:231-235
ListStep ==
    /\ Len(lsTrail) < 3
    /\ \E args \in ActorArgs :
          \E r \in {NavNextPath(lsNav, WithRandomSeed(args, lsSeed), <<>>, TRUE)} :
             /\ lsNav' = r.nav
             /\ lsTrail' = Append(lsTrail,
                                  [args |-> WithRandomSeed(args, lsSeed),
                                   before |-> lsNav, next |-> r.next])
    /\ UNCHANGED <<lsSeed, actorVars, findVars, cmpVars, sizeVars, configVars,
                   uiVars>>

-----------------------------------------------------------------------------
Init ==
    ConfigIdle /\ Spawn /\ FindIdle /\ CompareIdle /\ SizeIdle /\ UiIdle /\ ListIdle

Next ==
    \/ HandleNextPath
    \/ HandleDeleteFile
    \/ PollResponse
    \/ LoadInitialImage
    \/ SendResponse
    \/ Recv
    \/ RunCommand

Spec == Init /\ [][Next]_vars

\* the worker spawned with either cache size
InitCache ==
    /\ cfgCacheSize \in CacheSizes
    /\ Spawn /\ FindIdle /\ CompareIdle /\ SizeIdle /\ UiIdle /\ ListIdle

SpecCache == InitCache /\ [][Next]_vars

\* the worker and the settings window
NextConfig == Next \/ ConfigUi

SpecConfig == InitCache /\ [][NextConfig]_vars

\* the worker started with every file of the directory in place; files go
\* away by DeleteFile
InitFiles == Init /\ fs = Files

SpecFiles == InitFiles /\ [][Next]_vars

\* The worker thread keeps running and its calls return; the UI keeps
\* polling.  RunCommand is enabled exactly when actorPc = "run_command" and
\* is the only step that leaves that position, so that run_command returns is
\* WF_vars(RunCommand), stated here on the worker's position.
FairSpec ==
    /\ SpecFiles
    /\ WF_vars(LoadInitialImage)
    /\ WF_vars(SendResponse)
    /\ WF_vars(Recv)
    /\ []<>(actorPc # "run_command")
    /\ WF_vars(PollResponse)

InitFind ==
    /\ FindInit /\ ActorIdle /\ CompareIdle /\ SizeIdle /\ ConfigIdle /\ UiIdle
    /\ ListIdle

NextFind == \E direction \in Directions : FindStep(direction)

SpecFind == InitFind /\ [][NextFind]_vars

\* NextPath::RANDOM: Random mode is only ever used with Direction::Right
InitRandom ==
    /\ FindInitRandom /\ ActorIdle /\ CompareIdle /\ SizeIdle /\ ConfigIdle
    /\ UiIdle /\ ListIdle

NextRandom == FindStep("Right")

SpecRandom == InitRandom /\ [][NextRandom]_vars

InitCompare ==
    /\ CompareInit /\ ActorIdle /\ FindIdle /\ SizeIdle /\ ConfigIdle /\ UiIdle
    /\ ListIdle

NextCompare == CompareStep

SpecCompare == InitCompare /\ [][NextCompare]_vars

\* size_in_memory called once on any frames, in either build
InitSize ==
    /\ SizeInit /\ ActorIdle /\ FindIdle /\ CompareIdle /\ ConfigIdle /\ UiIdle
    /\ ListIdle

NextSize == SizeStep

SpecSize == InitSize /\ [][NextSize]_vars

\* the UI's State with either cache size, used by the application and
\* answered by its actor in any way
InitUi ==
    /\ cfgCacheSize \in CacheSizes
    /\ UiInit /\ ActorIdle /\ FindIdle /\ CompareIdle /\ SizeIdle /\ ListIdle

NextUi ==
    \/ UiOpen
    \/ UiNextPathInDirectory
    \/ UiTrashCurrent
    \/ UiHandleResponse
    \/ UiShowErrors
    \/ UiClearCache

SpecUi == InitUi /\ [][NextUi]_vars

\* next_path called on a Specified mode with any arguments
InitList ==
    /\ ListInit /\ ActorIdle /\ FindIdle /\ CompareIdle /\ SizeIdle /\ ConfigIdle
    /\ UiIdle

NextList == ListStep

SpecList == InitList /\ [][NextList]_vars

-----------------------------------------------------------------------------
(* Claims about find_next (SpecFind) *)

\* the positions of dir whose name compares as ord against name
Positions(dir, name, ord) ==
    {i \in 1..Len(dir) : HumanCompare(dir[i], name) = ord}

\* name is a least (Right) or greatest (Left) name among the positions
Extreme(direction, dir, positions, name) ==
    \A i \in positions :
        HumanCompare(name, dir[i]) \in
            {"Equal", IF direction = "Right" THEN "Less" ELSE "Greater"}

\* the selection rule of Simple mode for one call
SimpleRule(direction, current, dir, found) ==
    LET beyond == Positions(dir, current,
                            IF direction = "Right" THEN "Greater" ELSE "Less")
        pos == Unwrap(found).idx + 1
    IN  /\ IsSome(found)
        /\ pos \in 1..Len(dir)
        /\ dir[pos] = Unwrap(found).name
        /\ IF beyond # {}
           THEN pos \in beyond /\ Extreme(direction, dir, beyond, dir[pos])
           ELSE Extreme(direction, dir, 1..Len(dir), dir[pos])

\* C9: for every current name and every non-empty candidate sequence,
\* find_next Right returns a minimum (by natural compare) of the candidates
\* strictly greater than current, or the minimum of all candidates when none
\* is greater; Left returns the maximum of those strictly less, or the
\* maximum of all.
C9_SimpleSelection ==
    \A k \in 1..Len(fnTrail) :
        fnDir # <<>> =>
            SimpleRule(fnTrail[k].direction, fnTrail[k].current, fnDir,
                       fnTrail[k].found)

\* a Right call from the maximum of three different candidates wrapped to the
\* minimum, and a Left call picked a predecessor
C9_Witness ==
    /\ Len(fnDir) = 3
    /\ Len(fnTrail) >= 2
    /\ fnTrail[1].direction = "Right"
    /\ fnTrail[1].current \in Range(fnDir)
    /\ Positions(fnDir, fnTrail[1].current, "Greater") = {}
    /\ Positions(fnDir, fnTrail[1].current, "Less") # {}
    /\ HumanCompare(Unwrap(fnTrail[1].found).name, fnTrail[1].current) = "Less"
    /\ fnTrail[2].direction = "Left"
    /\ Positions(fnDir, fnTrail[2].current, "Less") = {}
    /\ HumanCompare(Unwrap(fnTrail[2].found).name, fnTrail[2].current) = "Greater"

\* the run is n = Len(fnDir) >= 1 different candidates, a start that is one
\* of them, and only Right steps
CycleRun ==
    /\ fnTrail # <<>>
    /\ Cardinality(Range(fnDir)) = Len(fnDir)
    /\ fnTrail[1].current \in Range(fnDir)
    /\ \A k \in 1..Len(fnTrail) : fnTrail[k].direction = "Right"

\* C10: for n >= 1 different candidates, n applications of next (Right,
\* Simple) from any member return to the start, and the names stepped from
\* are all different, so every member is visited exactly once.
C10_SimpleCycle ==
    CycleRun =>
        /\ \A j, k \in 1..Len(fnTrail) :
              j # k => fnTrail[j].current # fnTrail[k].current
        /\ Len(fnTrail) = Len(fnDir) =>
              /\ fnCurrent = fnTrail[1].current
              /\ {fnTrail[k].current : k \in 1..Len(fnTrail)} = Range(fnDir)

\* names to stand third in a chain of comparisons
ThirdNames == {c \in CompareNames : Len(c) < MaxName}

\* C13: the natural comparison is a strict total order: comparing the other
\* way round gives the opposite result, two names compare Equal only when
\* they are the same name, and the order is transitive.
C13_StrictTotalOrder ==
    IsSome(cmpOut) =>
        /\ Unwrap(cmpOut).rl = Reverse(Unwrap(cmpOut).lr)
        /\ Unwrap(cmpOut).lr = "Equal" <=> cmpLeft = cmpRight
        /\ \A c \in ThirdNames :
              (Unwrap(cmpOut).lr = "Less" /\ HumanCompare(cmpRight, c) = "Less")
                  => HumanCompare(cmpLeft, c) = "Less"

\* d is a run of digits
IsDigits(d) == d # <<>> /\ \A i \in 1..Len(d) : IsSome(ToDigit(d[i]))

\* the number a run of digits denotes
RECURSIVE DigitsValue(_)
DigitsValue(d) ==
    IF d = <<>> THEN 0
    ELSE 10 * DigitsValue(SubSeq(d, 1, Len(d) - 1)) + Unwrap(ToDigit(d[Len(d)]))

\* left and right are a common prefix of k characters, not ending in a
\* digit, each followed by a run of digits and nothing else
DigitRunSplits(left, right) ==
    {k \in 0..Len(left) :
        /\ k <= Len(right)
        /\ SubSeq(left, 1, k) = SubSeq(right, 1, k)
        /\ k = 0 \/ ~IsSome(ToDigit(left[k]))
        /\ IsDigits(SubSeq(left, k + 1, Len(left)))
        /\ IsDigits(SubSeq(right, k + 1, Len(right)))}

LeftAlignedLess(dl, dr) ==
    \E i \in 1..Len(dr) :
        /\ i <= Len(dl) + 1
        /\ SubSeq(dl, 1, i - 1) = SubSeq(dr, 1, i - 1)
        /\ i = Len(dl) + 1 \/ Unwrap(ToDigit(dl[i])) < Unwrap(ToDigit(dr[i]))

\* the rule for one pair of digit runs
DigitRunRule(dl, dr, ordering) ==
    IF dl[1] # "0" /\ dr[1] # "0"
    THEN DigitsValue(dl) < DigitsValue(dr) => ordering = "Less"
    ELSE LeftAlignedLess(dl, dr) => ordering = "Less"

OnlyCurrent(dir, current) == dir # <<>> /\ Range(dir) = {current}

\* C12 as stated: the result is none exactly when the candidate sequence is
\* empty or contains only the current item.
C12_AsStated ==
    \A k \in 1..Len(fnTrail) :
        ~IsSome(fnTrail[k].found) <=>
            (fnDir = <<>> \/ OnlyCurrent(fnDir, fnTrail[k].current))

\* C12 amended: the result is none exactly when the candidate sequence is
\* empty; otherwise it is a candidate with its index, and when the
\* candidates are only the current item it is that item, at index 0.
C12_NoneIffEmpty ==
    \A k \in 1..Len(fnTrail) :
        /\ ~IsSome(fnTrail[k].found) <=> fnDir = <<>>
        /\ IsSome(fnTrail[k].found) =>
              /\ Unwrap(fnTrail[k].found).idx + 1 \in 1..Len(fnDir)
              /\ fnDir[Unwrap(fnTrail[k].found).idx + 1] = Unwrap(fnTrail[k].found).name
        /\ OnlyCurrent(fnDir, fnTrail[k].current) =>
              fnTrail[k].found = Some([name |-> fnTrail[k].current, idx |-> 0])

\* a call whose only candidate was the current item returned that item, and
\* so did the next call
C12_Witness ==
    /\ Len(fnTrail) = 2
    /\ Len(fnDir) = 2
    /\ OnlyCurrent(fnDir, fnTrail[1].current)
    /\ fnTrail[1].direction = "Right"
    /\ fnTrail[2].direction = "Left"
    /\ IsSome(fnTrail[2].found)
    /\ fnCurrent = fnTrail[1].current

-----------------------------------------------------------------------------
(* Claims about the Handle and the Actor (Spec, FairSpec) *)

\* the worker is between Handle::spawn and the send of the startup response
StartupPending ==
    \/ actorPc = "load_initial_image"
    \/ actorPc = "send_response" /\ ~IsSome(actorCmd)

\* commands queued, the command being executed, responses not yet polled
InFlightCommands ==
    Len(cmdChan) + (IF IsSome(actorCmd) THEN 1 ELSE 0) + Len(respChan)

\* the same, with the startup load the worker has not answered yet
InFlight == InFlightCommands + (IF StartupPending THEN 1 ELSE 0)

\* C1 as stated: the commands queued, the command being executed and the
\* unpolled responses are together at most 1, exactly 1 when waiting and 0
\* when not.
C1_AsStated ==
    /\ InFlightCommands <= 1
    /\ waiting => InFlightCommands = 1
    /\ ~waiting => InFlightCommands = 0

\* C1 amended: counting also the startup load that has not yet put its
\* response on the channel, at most one unit of work is in flight, exactly 1
\* when waiting and 0 when not.
C1_OneInFlight ==
    /\ InFlight <= 1
    /\ waiting => InFlight = 1
    /\ ~waiting => InFlight = 0

\* a second command is being executed while the handle waits for it
C1_Witness ==
    /\ nSent = 2
    /\ waiting
    /\ IsSome(actorCmd)
    /\ cmdChan = <<>>
    /\ respChan = <<>>

\* a step of Handle::send, by next_path or by delete_file
SendStep == HandleNextPath \/ HandleDeleteFile

\* C2: a send issued while the handle is waiting returns AlreadyWaiting,
\* puts nothing on the command channel and leaves the handle waiting.
C2_Backpressure ==
    [][(SendStep /\ waiting) =>
          /\ uiRet' = Returned("send", "AlreadyWaiting", None)
          /\ cmdChan' = cmdChan
          /\ uiBlocked' = uiBlocked
          /\ waiting']_vars

\* a send was refused while the first command had no polled response
C2_Witness ==
    /\ uiRet = Returned("send", "AlreadyWaiting", None)
    /\ nSent = 1
    /\ polled = <<0>>
    /\ waiting

\* C3: the worker takes the commands one by one in the order of their
\* sends, and sends the startup response and then one response per executed
\* command: between commands it has sent 1 + nExecuted responses, and with
\* a computed response still to send, one less.
C3_ExactlyOnce ==
    /\ \A k \in 1..Len(respLog) : respLog[k] = k - 1
    /\ nRecv <= nSent
    /\ IsSome(actorCmd) => Unwrap(actorCmd).id = nRecv
    /\ actorPc = "recv" => nExecuted = nRecv /\ Len(respLog) = 1 + nExecuted
    /\ actorPc = "run_command" => nExecuted = nRecv - 1 /\ Len(respLog) = nRecv
    /\ actorPc = "send_response" /\ IsSome(actorCmd) =>
          nExecuted = nRecv /\ Len(respLog) = nExecuted

\* two commands were answered, the second by an I/O error
C3_Witness ==
    /\ actorPc = "recv"
    /\ nExecuted = 2
    /\ respLog = <<0, 1, 2>>
    /\ respChan # <<>>
    /\ Head(respChan).kind = "IoError"

C5_NeverBlocks ==
    /\ uiBlocked = None
    /\ ~waiting => cmdChan = <<>>

\* a second send pushed onto the command channel and returned Sent
C5_Witness ==
    /\ uiRet = Returned("send", "Sent", None)
    /\ nSent = 2
    /\ Len(cmdChan) = 1

\* C6: poll_response on an empty response channel returns nothing and
\* changes neither the handle nor the channels; with a response present it
\* removes that response, returns it and clears waiting.
C6_PollResponse ==
    [][PollResponse =>
          IF respChan = <<>>
          THEN /\ uiRet' = Returned("poll_response", "None", None)
               /\ UNCHANGED <<waiting, respChan, cmdChan>>
          ELSE /\ uiRet' = Returned("poll_response", "Some", Some(Head(respChan)))
               /\ respChan' = Tail(respChan)
               /\ cmdChan' = cmdChan
               /\ ~waiting']_vars

\* polls returned the startup response and the response of a command, each
\* making the handle idle, and a later poll found nothing while it waited
C6_Witness ==
    /\ uiRet = Returned("poll_response", "None", None)
    /\ waiting
    /\ respChan = <<>>
    /\ polled = <<0, 1>>
    /\ nSent = 2

\* C7: the k-th response polled after the startup response answers the k-th
\* accepted command, and the worker executes the commands in send order.
C7_InOrder ==
    /\ \A k \in 1..Len(polled) : polled[k] = k - 1
    /\ IsSome(actorCmd) => Unwrap(actorCmd).id = nRecv
    /\ Len(polled) <= nSent + 1

\* the responses of two commands were polled in order
C7_Witness == polled = <<0, 1, 2>> /\ nSent = 2

\* the startup response, wherever it is at the moment
StartupResponses ==
    {r \in Range(actorResp) \cup Range(respChan) \cup Range(uiRet.response) :
        r.tag = 0}

\* C8: when the navigation mode has an initial current path, the startup
\* response is LoadImage for exactly that path, and it is sent before the
\* worker receives any command.
C8_InitialImage ==
    /\ IsSome(CurrentPath(navInit)) =>
          \A r \in StartupResponses :
              r.kind = "LoadImage" /\ r.path = CurrentPath(navInit)
    /\ nRecv > 0 => respLog # <<>> /\ respLog[1] = 0

\* the UI polled the startup LoadImage of a Specified list before any
\* command was received
C8_Witness ==
    /\ navInit.kind = "Specified"
    /\ nRecv = 0
    /\ uiRet.result = "Some"
    /\ Unwrap(uiRet.response).kind = "LoadImage"
    /\ Unwrap(uiRet.response).path = Some(navInit.paths[1])

\* the files of the directory in the order a, b, c
FileBefore(p, q) == CharCode(p[1]) < CharCode(q[1])

\* the least of a non-empty set of files
LeastFile(S) == CHOOSE p \in S : \A q \in S : q = p \/ FileBefore(p, q)

\* the greatest of a non-empty set of files
GreatestFile(S) == CHOOSE p \in S : \A q \in S : q = p \/ FileBefore(q, p)

\* the file after path in the directory (Right) or before it (Left), going
\* round at the end
Successor(direction, path, files) ==
    IF direction = "Right"
    THEN IF {q \in files : FileBefore(path, q)} # {}
         THEN LeastFile({q \in files : FileBefore(path, q)})
         ELSE LeastFile(files)
    ELSE IF {q \in files : FileBefore(q, path)} # {}
         THEN GreatestFile({q \in files : FileBefore(q, path)})
         ELSE GreatestFile(files)

\* the worker returns from run_command
RunCommandStep == actorPc = "run_command" /\ actorPc' # "run_command"

\* what C15 says of a NextPath command in InDirectory mode, answered r
DirectoryStepRule(command, r) ==
    (command.kind = "NextPath" /\ nav.kind = "InDirectory"
        /\ r.kind # "IoError" /\ fs # {}) =>
            /\ r.kind = "LoadImage"
            /\ r.path = Some(Successor(command.args.direction,
                                       Unwrap(nav.current), fs))
            /\ fs' = fs

\* C15: in InDirectory mode every NextPath command that lists the directory
\* is answered by LoadImage for the successor of the worker's current path,
\* which is the path of the previous LoadImage response; whenever the worker
\* answers LoadImage its current path is the path of that response, and its
\* current path changes in no other step.
C15_DirectoryNavigation ==
    [][/\ RunCommandStep =>
             /\ DirectoryStepRule(Unwrap(actorCmd), Unwrap(actorResp'))
             /\ Unwrap(actorResp').kind = "LoadImage" =>
                    CurrentPath(nav') = Unwrap(actorResp').path
       /\ nav' # nav =>
             /\ RunCommandStep
             /\ Unwrap(actorResp').kind = "LoadImage"
             /\ CurrentPath(nav') = Unwrap(actorResp').path]_vars

\* a directory of a, b, c that did not change, started at b: the second
\* NextPath(Right) is answered LoadImage for a, so the first moved to c
C15_Witness ==
    /\ navInit = NavInDirectory(<<"b">>)
    /\ fs = Files
    /\ actorPc = "send_response"
    /\ actorCmd = Some(WithId(CmdNextPath(RIGHT), 2))
    /\ Unwrap(actorResp).kind = "LoadImage"
    /\ Unwrap(actorResp).path = Some(<<"a">>)
    /\ nav = NavInDirectory(<<"a">>)


-----------------------------------------------------------------------------
\* run_command removed the file of a DeleteFile command
DeleteStep ==
    /\ RunCommandStep
    /\ Unwrap(actorCmd).kind = "DeleteFile"
    /\ Unwrap(actorCmd).path \in {Some(p) : p \in fs}
    /\ fs' = fs \ {Unwrap(Unwrap(actorCmd).path)}

\* C16: when the file shown is the only image of its directory and a
\* DeleteFile of it removes it and the directory can still be listed, the
\* answer is NoOp (nothing is left to show) and the worker has no current
\* path afterwards.
C16_DeleteOnlyImage ==
    [][/\ DeleteStep
       /\ nav.kind = "InDirectory"
       /\ Unwrap(actorCmd).path = CurrentPath(nav)
       /\ fs' = {}
       /\ Unwrap(actorResp').kind # "IoError"
       => /\ Unwrap(actorResp').kind = "NoOp"
          /\ CurrentPath(nav') = None]_vars

\* C17: a DeleteFile that removed its file leaves the path out of the
\* worker's cache, whether or not it was the current path, and no later
\* answer carries a cached image for a path whose file is gone.
C17_DeletedNotCached ==
    [][/\ DeleteStep => Unwrap(Unwrap(actorCmd).path) \notin Range(cache'.lru)
       /\ /\ RunCommandStep
          /\ Unwrap(actorResp').kind = "LoadImage"
          /\ Unwrap(actorResp').image = "Ok"
          => Unwrap(Unwrap(actorResp').path) \in fs']_vars

-----------------------------------------------------------------------------
(* Claims about the cache and its weights *)

\* C18: the weight counter of the worker's cache never exceeds the
\* capacity the cache was configured with, whatever was loaded, hit or
\* evicted.
C18_CacheCapacity == TotalWeight(cache) <= cache.capacity

\* a was loaded at startup, then b, and the load of c evicted a only
C18_Witness ==
    /\ navInit = NavInDirectory(<<"a">>)
    /\ nExecuted = 2
    /\ cache.lru = << <<"c">>, <<"b">> >>
    /\ TotalWeight(cache) = 20

\* W*H*4*F for the image of a file, whose F frames are all W by H
Charged(path) ==
    Frames(path)[1][1] * Frames(path)[1][2] * 4 * Len(Frames(path))

RECURSIVE SumCharged(_)
SumCharged(paths) ==
    IF paths = <<>> THEN 0 ELSE Charged(Head(paths)) + SumCharged(Tail(paths))

\* C19: every cached image is charged W*H*4*F, so the weight counter is the
\* sum of that over the cached images, and an insert that evicts nothing
\* raises the counter by exactly W*H*4*F of the inserted image.
C19_WeightAccounting ==
    /\ [](TotalWeight(cache) = SumCharged(cache.lru))
    /\ [][\A p \in Files :
            /\ p \notin Range(cache.lru)
            /\ Range(cache'.lru) = Range(cache.lru) \cup {p}
            => TotalWeight(cache') = TotalWeight(cache) + Charged(p)]_vars

\* b, of 2 by 1 pixels in one frame, was inserted next to a and evicted nothing
C19_Witness ==
    /\ cache.lru = << <<"b">>, <<"a">> >>
    /\ TotalWeight(cache) = 12
    /\ actorPc = "send_response"
    /\ Unwrap(actorResp).path = Some(<<"b">>)

\* the bytes of the frames as a number with no word limit
RECURSIVE ExactSize(_)
ExactSize(frames) ==
    IF frames = <<>> THEN 0
    ELSE Head(frames)[1] * Head(frames)[2] * PixelSize + ExactSize(Tail(frames))

Clamp(n) == IF n > WordMax THEN WordMax ELSE n

\* C20: size_in_memory saturates throughout: for any frames it returns, with
\* no panic and no wrap-around, the bytes of the frames clamped at the
\* largest word.
C20_Saturating ==
    IsSome(szOut) =>
        /\ ~Unwrap(szOut).panic
        /\ Unwrap(szOut).value = Clamp(ExactSize(szFrames))

-----------------------------------------------------------------------------
(* Claims about cache hits, inserts and refused inserts *)

\* load_initial_image or run_command returned a LoadImage response
LoadStep ==
    /\ actorPc \in {"load_initial_image", "run_command"}
    /\ actorPc' = "send_response"
    /\ Unwrap(actorResp').kind = "LoadImage"

\* the path of the response of a LoadStep
LoadedPath == Unwrap(Unwrap(actorResp').path)

\* C21: a load of a path that is cached is answered with the image object
\* the cache holds for it, the one its first load made, and calls Image::load
\* not at all: the image of the answer is not one made by this command, and
\* the cache keeps the same object.
C21_CacheHit ==
    [][LoadStep /\ LoadedPath \in Range(cache.lru) =>
          /\ Unwrap(actorResp').image = "Ok"
          /\ Unwrap(actorResp').id = CachedImage(cache, LoadedPath)
          /\ Unwrap(actorResp').id # Unwrap(actorResp').tag
          /\ CachedImage(cache', LoadedPath) = CachedImage(cache, LoadedPath)
      ]_vars

\* a, decoded by the startup load, is returned again by the second command
C21_Witness ==
    /\ actorPc = "send_response"
    /\ Unwrap(actorResp).kind = "LoadImage"
    /\ Unwrap(actorResp).path = Some(<<"a">>)
    /\ Unwrap(actorResp).tag = 2
    /\ Unwrap(actorResp).id = 0
    /\ Unwrap(actorResp).image = "Ok"

\* a LoadStep that decoded path and called put_with_weight
InsertStep(path) ==
    /\ LoadStep
    /\ LoadedPath = path
    /\ path \notin Range(cache.lru)
    /\ Unwrap(actorResp').image = "Ok"

RECURSIVE SumWeight(_)
SumWeight(paths) ==
    IF paths = <<>> THEN 0 ELSE Weight(Head(paths)) + SumWeight(Tail(paths))

\* the k most recently used entries leave room for an entry of this weight
Room(c, k, weight) == k + SumWeight(SubSeq(c.lru, 1, k)) + weight < c.capacity

\* how many of the most recently used entries an insert keeps
Kept(c, weight) ==
    CHOOSE k \in 0..Len(c.lru) :
        /\ Room(c, k, weight)
        /\ \A j \in (k + 1)..Len(c.lru) : ~Room(c, j, weight)

\* C22 as stated: an entry whose weight is at most the capacity is always
\* inserted.
C22_AsStated ==
    [][\A p \in Files :
          InsertStep(p) /\ Weight(p) <= cache.capacity
          => p \in Range(cache'.lru)]_vars

\* C22 amended: a hit makes its entry the most recently used; an insert is
\* refused, leaving the cache as it was, exactly when the weight of the new
\* entry alone is at least the capacity; otherwise the new entry is inserted
\* as the most recently used after entries were dropped from the least
\* recently used end, as few as make the number of entries plus the total
\* weight, the new entry included, at most the capacity.
C22_LruInsert ==
    [][\A p \in Files :
          /\ LoadStep /\ LoadedPath = p /\ p \in Range(cache.lru)
             => cache'.lru = <<p>> \o SelectSeq2(cache.lru, p)
          /\ InsertStep(p) /\ Weight(p) >= cache.capacity => cache' = cache
          /\ InsertStep(p) /\ Weight(p) < cache.capacity
             => /\ cache'.lru =
                     <<p>> \o SubSeq(cache.lru, 1, Kept(cache, Weight(p)))
                /\ Len(cache'.lru) + TotalWeight(cache') <= cache.capacity
      ]_vars

\* b and c were cached; the load of a dropped b, the least recently used
C22_Witness ==
    /\ navInit = NavInDirectory(<<"b">>)
    /\ nExecuted = 2
    /\ cache.lru = << <<"a">>, <<"c">> >>
    /\ TotalWeight(cache) = 16

\* C23, the worker's side: when a path was decoded and its insert into the
\* cache is refused for its weight, the answer is still LoadImage with the
\* decoded image, the path is the worker's current path, and the cache is
\* as it was.
C23_RefusedInsert ==
    [][\A p \in Files :
          InsertStep(p) /\ Refused(cache, Weight(p))
          => /\ Unwrap(actorResp').image = "Ok"
             /\ Unwrap(actorResp').id = Unwrap(actorResp').tag
             /\ CurrentPath(nav') = Some(p)
             /\ cache' = cache]_vars

\* C24: when the Cache Size setting is lowered below the total weight of
\* the cache, entries are evicted at once, so that the total weight is at
\* most the new setting.
C24_ShrinkEvicts ==
    [][cfgCacheSize' < cfgCacheSize /\ cfgCacheSize' < TotalWeight(cache)
       => TotalWeight(cache') <= cfgCacheSize']_vars

-----------------------------------------------------------------------------
(* Claims about errors in the worker *)

\* the response a step of the worker computed carries an error
IsErrorResponse(resp) ==
    resp.kind = "IoError" \/ (resp.kind = "LoadImage" /\ resp.image = "Err")

\* C25: a command that fails does not end the worker's loop.  run_command
\* always returns to send_response with a response for its command; a
\* DeleteFile of a file that cannot be removed is answered with the I/O
\* error and changes nothing; a load of a file that is neither cached nor
\* on disk is answered with LoadImage carrying the decode error; and when
\* an error response was sent the worker is back at recv, with the state the
\* failed command left.
C25_ErrorsDoNotAbort ==
    [][/\ RunCommandStep =>
            /\ actorPc' = "send_response"
            /\ Unwrap(actorResp').tag = Unwrap(actorCmd).id
       /\ /\ RunCommandStep
          /\ Unwrap(actorCmd).kind = "DeleteFile"
          /\ Unwrap(Unwrap(actorCmd).path) \notin fs
          => /\ Unwrap(actorResp').kind = "IoError"
             /\ nav' = nav /\ cache' = cache /\ fs' = fs
       /\ /\ LoadStep
          /\ LoadedPath \notin fs'
          /\ LoadedPath \notin Range(cache.lru)
          => /\ Unwrap(actorResp').image = "Err"
             /\ cache' = cache
       /\ /\ actorPc = "send_response"
          /\ actorPc' # "send_response"
          /\ IsErrorResponse(Unwrap(actorResp))
          => /\ actorPc' = "recv"
             /\ respChan' = Append(respChan, Unwrap(actorResp))
             /\ nav' = nav /\ cache' = cache /\ fs' = fs]_vars

\* a list of b and a, of which only b exists: the first command moved to a,
\* whose decode failed, and the second is answered with the image of b
C25_Witness ==
    /\ navInit = NavSpecified(<< <<"b">>, <<"a">> >>)
    /\ fs = {<<"b">>}
    /\ nExecuted = 2
    /\ respLog = <<0, 1>>
    /\ actorPc = "send_response"
    /\ Unwrap(actorResp).kind = "LoadImage"
    /\ Unwrap(actorResp).path = Some(<<"b">>)
    /\ Unwrap(actorResp).image = "Ok"
    /\ Unwrap(actorResp).tag = 2

-----------------------------------------------------------------------------
(* Claims about the UI's State (SpecUi) *)

\* C23: a cache insert that fails does not keep the image from the user:
\* when the State handles a LoadImage response that carries a decoded image
\* and its cache refuses the insert, the image becomes the current entry,
\* not an error, and the cache is as it was.
C23_DisplayedUncached ==
    [][\A p \in Files :
          /\ uiLast' = Ran("LoadImage", p, "Ok", {})
          /\ Refused(uiCache, Weight(p))
          => /\ uiCurrent' = Some(OpenImage(p, "Ok", uiHandled))
             /\ uiCache' = uiCache]_vars

\* C26: open(path) of a path that is in the State's cache makes it the
\* current entry, with the cached image, in that step and calls the actor not
\* at all; open of a path that is not cached calls load_image(path) on the
\* actor and leaves the current entry and the cache as they were; and the
\* current entry changes in no step but an open or the handling of a
\* response.
C26_OpenCachedIsSynchronous ==
    [][/\ \A p \in Files :
             uiLast' = Ran("open", p, "-", {}) =>
                IF p \in Range(uiCache.lru)
                THEN /\ uiCurrent' =
                           Some(OpenImage(p, "Ok", CachedImage(uiCache, p)))
                     /\ uiCalls' = uiCalls
                ELSE /\ uiCalls' =
                           Append(uiCalls, ActorCall("load_image", p, "-"))
                     /\ uiCurrent' = uiCurrent
                     /\ uiCache' = uiCache
       /\ uiCurrent' # uiCurrent =>
             uiLast'.op \in {"open", "LoadImage", "NextPath"}]_vars

\* b was loaded and cached, a is shown; open(b) switched to b with no call
C26_Witness ==
    /\ uiLast = Ran("open", <<"b">>, "-", {})
    /\ uiCurrent = Some(OpenImage(<<"b">>, "Ok", 0))
    /\ uiCache.lru = << <<"b">> >>
    /\ uiCalls = <<>>
    /\ uiHandled = 2

\* the ids of the records of a queue
ErrorIds(errors) == {errors[k].id : k \in 1..Len(errors)}

-----------------------------------------------------------------------------
(* More claims about find_next (SpecFind, SpecRandom) *)

\* C28: a current name that is no candidate is compared like one. For every
\* call with a non-empty candidate sequence that does not hold the current
\* name the result is not none; Right returns a least of the candidates
\* strictly greater than the current name, or a least of all candidates
\* when none is greater (Left mirrored); and it is the candidate, at the
\* index, that the call returns when the current name is added to the
\* sequence as its last member.
C28_CurrentNotMember ==
    \A k \in 1..Len(fnTrail) :
        (fnDir # <<>> /\ fnTrail[k].current \notin Range(fnDir)) =>
            /\ SimpleRule(fnTrail[k].direction, fnTrail[k].current, fnDir,
                          fnTrail[k].found)
            /\ fnTrail[k].found =
                  FindNextImpl(fnTrail[k].direction, fnTrail[k].current,
                               Append(fnDir, fnTrail[k].current), fnMode)

\* the current name is none of three candidates and greater than all of
\* them: Right wrapped to the least; the next current name is a member
C28_Witness ==
    /\ Len(fnDir) = 3
    /\ Len(fnTrail) = 1
    /\ fnTrail[1].direction = "Right"
    /\ fnTrail[1].current \notin Range(fnDir)
    /\ Positions(fnDir, fnTrail[1].current, "Less") = 1..3
    /\ IsSome(fnTrail[1].found)
    /\ Extreme("Right", fnDir, 1..3, fnCurrent)

\* the calls of the run that stepped from name
VisitsOf(name) == {k \in 1..Len(fnTrail) : fnTrail[k].current = name}

-----------------------------------------------------------------------------
(* Claims about navigation in a list (SpecList) *)

\* how the path at position i of paths stands to the current path, in the
\* order of the call: by (hash, name) in Random mode, by name in Simple
\* mode, reversed for Left
ListOrder(args, paths, i, current) ==
    ForOrdering(args.direction,
                CmpItem(Item(args.mode, paths[i]), Item(args.mode, current)))

\* position p is a first one of the positions S in the order of the call
FirstOf(args, paths, S, p) ==
    /\ p \in S
    /\ \A i \in S : ListOrder(args, paths, p, paths[i]) \in {"Less", "Equal"}

\* C30: in Specified mode every next_path call (in each state, the last
\* one made) returns a path of the list
\* and sets the mode's current index to an index i at which the list holds
\* that path; the path is the one the selection rule chooses for the path
\* at the current index: a first of the paths after it in the order of the
\* call (natural order for Simple, hash order for Random; Left reversed), or
\* a first of all paths when none is after it; the list itself is unchanged.
C30_ListNavigation ==
    lsTrail # <<>> =>
        LET call == lsTrail[Len(lsTrail)]
            paths == call.before.paths
            current == paths[call.before.index + 1]
            after == lsNav
            i == after.index
            beyond == {p \in 1..Len(paths) :
                          ListOrder(call.args, paths, p, current) = "Greater"}
        IN  /\ after.kind = "Specified" /\ after.paths = paths
            /\ i + 1 \in 1..Len(paths)
            /\ call.next = Some(paths[i + 1])
            /\ CurrentPath(after) = call.next
            /\ IF beyond # {}
               THEN FirstOf(call.args, paths, beyond, i + 1)
               ELSE FirstOf(call.args, paths, 1..Len(paths), i + 1)

\* a list that is not in natural order: Right went from a2 at index 0 to
\* a10 at index 1, Right again wrapped to a at index 2, and a Random call
\* went on from there
C30_Witness ==
    /\ lsNav.paths = << <<"a", "2">>, <<"a", "1", "0">>, <<"a">> >>
    /\ Len(lsTrail) = 3
    /\ lsTrail[1].args = RIGHT /\ lsTrail[1].before.index = 0
    /\ lsTrail[2].args = RIGHT /\ lsTrail[2].before.index = 1
    /\ lsTrail[3].args.mode.kind = "Random" /\ lsTrail[3].before.index = 2
    /\ lsNav.index # 2

-----------------------------------------------------------------------------
(* More claims about the worker (Spec, FairSpec) *)

\* C31: the variant of the navigation mode is the one the worker was
\* spawned with, and no step changes it: an Empty mode stays as it is, a
\* Specified mode keeps its sequence of paths, also when a file of the list
\* is deleted, and changes only its current index, and an InDirectory mode
\* changes only its current path.
C31_ModeIsFixed ==
    /\ [](nav.kind = navInit.kind /\ nav.paths = navInit.paths)
    /\ [][/\ nav'.kind = nav.kind
          /\ nav'.paths = nav.paths
          /\ nav.kind = "Empty" => nav' = nav
          /\ nav.kind = "Specified" => nav'.current = nav.current
          /\ nav.kind = "InDirectory" => nav'.index = nav.index]_vars

\* the current file of a list was deleted: the worker went on to the other
\* path of the list, and the list still holds the deleted one
C31_Witness ==
    /\ navInit = NavSpecified(<< <<"a">>, <<"b">> >>)
    /\ actorCmd = Some(WithId(CmdDeleteFile(<<"a">>), 1))
    /\ actorPc = "send_response"
    /\ <<"a">> \notin fs
    /\ nav.paths = navInit.paths
    /\ nav.index = 1

-----------------------------------------------------------------------------
(* More claims about navigation in a list (SpecList) *)

\* the run so far is calls of NextPath(Right, Random) on a list of
\* different paths
RandomRun ==
    /\ lsTrail # <<>>
    /\ Cardinality(Range(lsNav.paths)) = Len(lsNav.paths)
    /\ \A k \in 1..Len(lsTrail) :
          lsTrail[k].args = [direction |-> "Right", mode |-> Random(lsSeed)]

-----------------------------------------------------------------------------
(* Claims about errors and empty results in the worker (Spec) *)

\* C33: a command that meets a file system error is answered once, with the
\* error, and not tried again: the response of the step carries the
\* command's tag and no image, the worker goes on to send it, and its
\* navigation mode and cache are as before the command.  A DeleteFile whose
\* remove_file fails leaves the files as they were, and so does a NextPath
\* whose directory listing fails.
C33_ErrorsSurfaced ==
    [][(RunCommandStep /\ Unwrap(actorResp').kind = "IoError") =>
          /\ Unwrap(actorResp').tag = Unwrap(actorCmd).id
          /\ Unwrap(actorResp').image = "-"
          /\ actorPc' = "send_response"
          /\ nav' = nav
          /\ cache' = cache
          /\ fs' = fs \/ DeleteStep
          /\ Unwrap(actorCmd).kind = "NextPath" => fs' = fs]_vars

\* the listing of the directory failed for the second command: b, loaded by
\* the first, is still the current path and still cached
C33_Witness ==
    /\ navInit = NavInDirectory(<<"a">>)
    /\ actorCmd = Some(WithId(CmdNextPath(RIGHT), 2))
    /\ actorPc = "send_response"
    /\ Unwrap(actorResp).kind = "IoError"
    /\ nav = NavInDirectory(<<"b">>)
    /\ cache.lru = << <<"b">>, <<"a">> >>

\* C34: a NextPath command that finds no candidate, because the mode is
\* Empty or because the directory of an InDirectory mode holds no image
\* file and was listed, is answered NoOp; nothing is decoded, and the
\* navigation mode, with its current path, and the cache are unchanged.
C34_NoCandidate ==
    [][(/\ RunCommandStep
        /\ Unwrap(actorCmd).kind = "NextPath"
        /\ \/ nav.kind = "Empty"
           \/ nav.kind = "InDirectory" /\ fs = {}
        /\ Unwrap(actorResp').kind # "IoError") =>
           /\ Unwrap(actorResp').kind = "NoOp"
           /\ Unwrap(actorResp').image = "-"
           /\ nav' = nav
           /\ cache' = cache
           /\ fs' = fs]_vars

\* the directory of b holds no image file, so the startup load failed:
\* NextPath is answered NoOp and b stays the current path
C34_Witness ==
    /\ navInit = NavInDirectory(<<"b">>)
    /\ fs = {}
    /\ actorCmd = Some(WithId(CmdNextPath(LEFT), 1))
    /\ actorPc = "send_response"
    /\ Unwrap(actorResp).kind = "NoOp"
    /\ nav = navInit
    /\ cache.lru = <<>>

-----------------------------------------------------------------------------
(* Relations between calls of find_next (SpecFind) *)

\* C35: previous and next are inverse steps: for different candidate names
\* and a member x, Left from the result of Right from x returns x, and
\* Right from the result of Left from x returns x.
C35_InverseSteps ==
    (/\ Len(fnTrail) >= 2
     /\ Cardinality(Range(fnDir)) = Len(fnDir)
     /\ fnTrail[1].current \in Range(fnDir)
     /\ fnTrail[2].direction # fnTrail[1].direction) =>
        /\ IsSome(fnTrail[2].found)
        /\ Unwrap(fnTrail[2].found).name = fnTrail[1].current

\* the sequences that hold the members of dir once each, in any order
Reorderings(dir) == {s \in [1..Len(dir) -> Range(dir)] : Range(s) = Range(dir)}

\* C36: the name chosen does not depend on the order in which the
\* candidates come: for different candidate names, find_next returns the
\* same name for every reordering of the candidate sequence.
C36_OrderIndependent ==
    \A k \in 1..Len(fnTrail) :
        Cardinality(Range(fnDir)) = Len(fnDir) =>
            \A other \in Reorderings(fnDir) :
                JoinParent(FindNextImpl(fnTrail[k].direction,
                                        fnTrail[k].current, other, fnMode))
                    = JoinParent(fnTrail[k].found)

-----------------------------------------------------------------------------
(* More claims about the worker's commands (Spec) *)

\* C37: a decode that fails does not hold up navigation.  When a command
\* is answered LoadImage with a decode error, the worker's current path is
\* the path of that response, and the cache is as it was and does not hold
\* the path; and every NextPath in a directory is answered from the
\* worker's current path, so the next one goes on from the path that failed.
C37_DecodeFailureAdvances ==
    [][/\ (/\ RunCommandStep
           /\ Unwrap(actorResp').kind = "LoadImage"
           /\ Unwrap(actorResp').image = "Err") =>
              /\ CurrentPath(nav') = Unwrap(actorResp').path
              /\ cache' = cache
              /\ LoadedPath \notin Range(cache'.lru)
       /\ RunCommandStep =>
              DirectoryStepRule(Unwrap(actorCmd), Unwrap(actorResp'))]_vars

\* in the directory of a, b and c, from a: the decode of b failed after
\* the first NextPath(Right), so b is not cached, and the second is
\* answered with the image of c
C37_Witness ==
    /\ navInit = NavInDirectory(<<"a">>)
    /\ fs = Files
    /\ actorCmd = Some(WithId(CmdNextPath(RIGHT), 2))
    /\ actorPc = "send_response"
    /\ Unwrap(actorResp).kind = "LoadImage"
    /\ Unwrap(actorResp).path = Some(<<"c">>)
    /\ Unwrap(actorResp).image = "Ok"
    /\ nav = NavInDirectory(<<"c">>)
    /\ cache.lru = << <<"c">>, <<"a">> >>

-----------------------------------------------------------------------------
(* The startup of the handle and the worker (FairSpec) *)

\* C38: the handle starts waiting, and until the startup response is
\* polled it stays waiting, accepts no command and answers every send
\* AlreadyWaiting.  The worker sends one startup response and no second
\* one: LoadImage when the mode has a current path, NoOp when it is Empty.
\* In every mode, as the UI keeps polling, the startup response is polled
\* and the handle is idle.
C38_Startup ==
    /\ [](polled = <<>> =>
              /\ waiting
              /\ nSent = 0
              /\ uiRet.call = "send" => uiRet.result = "AlreadyWaiting")
    /\ [](Cardinality({k \in 1..Len(respLog) : respLog[k] = 0}) <= 1)
    /\ [](\A r \in StartupResponses :
              r.kind = IF navInit.kind = "Empty" THEN "NoOp" ELSE "LoadImage")
    /\ <>(respLog # <<>> /\ respLog[1] = 0)
    /\ <>(polled # <<>> /\ polled[1] = 0 /\ ~waiting)

\* an Empty mode: a send before the startup response was polled was refused
\* and the worker's NoOp is on the response channel
C38_Witness ==
    /\ navInit = NavEmpty
    /\ polled = <<>>
    /\ waiting
    /\ uiRet = Returned("send", "AlreadyWaiting", None)
    /\ Len(respChan) = 1
    /\ respChan[1].kind = "NoOp"
    /\ respChan[1].tag = 0

-----------------------------------------------------------------------------
(* DeleteFile of another path, and the index of a list (Spec) *)

\* C39: a DeleteFile of a path that is not the worker's current path, whose
\* file is removed, is answered NoOp: the file is gone, no image is loaded,
\* and the navigation mode, with its current path or index, and the cache
\* are unchanged.
C39_DeleteOther ==
    [][(/\ DeleteStep
        /\ Unwrap(actorCmd).path # CurrentPath(nav)) =>
           /\ Unwrap(actorResp').kind = "NoOp"
           /\ Unwrap(actorResp').image = "-"
           /\ fs' = fs \ {Unwrap(Unwrap(actorCmd).path)}
           /\ nav' = nav
           /\ cache' = cache]_vars

\* a is shown and cached; DeleteFile of b removed b and was answered NoOp
C39_Witness ==
    /\ navInit = NavInDirectory(<<"a">>)
    /\ nav = navInit
    /\ actorCmd = Some(WithId(CmdDeleteFile(<<"b">>), 1))
    /\ actorPc = "send_response"
    /\ Unwrap(actorResp).kind = "NoOp"
    /\ fs = {<<"a">>, <<"c">>}
    /\ cache.lru = << <<"a">> >>

\* C40: in Specified mode the current index is an index of the path list,
\* 0 <= current < number of paths, at startup and after every command, so
\* the current path is always a path of the list.
C40_IndexInBounds ==
    nav.kind = "Specified" =>
        /\ nav.index \in 0..(Len(nav.paths) - 1)
        /\ Len(nav.paths) >= 2
        /\ CurrentPath(nav) \in {Some(p) : p \in Range(nav.paths)}

\* a list of two: the worker moved to the last index and, a DeleteFile of
\* that path later, back to the first
C40_Witness ==
    /\ navInit = NavSpecified(<< <<"a">>, <<"b">> >>)
    /\ nExecuted = 2
    /\ actorCmd = Some(WithId(CmdDeleteFile(<<"b">>), 2))
    /\ <<"b">> \notin fs
    /\ nav.index = 0
=============================================================================
